---- MODULE Spec2Model ----
(***************************************************************************)
(* A model of pymux: the pty process wrapper (pymux/process.py), the       *)
(* attaching client (pymux/client.py) and direction-based focus movement   *)
(* over the rendered pane geometry and the mouse handler of a pane         *)
(* (pymux/layout.py), and the command                                      *)
(* table (pymux/commands/commands.py).                                     *)
(*                                                                         *)
(* The specifications share one state:                                     *)
(*   Spec          one Process, its child, the event loop and the          *)
(*                 executor, with write_input calls                        *)
(*   SpecSignal    the same Process with send_signal calls                 *)
(*   SpecTeardown  the same under fair scheduling of executor and loop     *)
(*   SpecResize    the same Process with set_size calls                    *)
(*   SpecChild     the forked child on its way to os.execv                 *)
(*   SpecClient    one Client running attach() against a server socket     *)
(*   SpecAttached  the same with a server that sends on, and a loop that   *)
(*                 runs whenever select reports something                  *)
(*   SpecWrites    the writers: Client._send_packet, Process.write_input   *)
(*   SpecSends     the packets a Client sends                              *)
(*   SpecSize      size packets from the terminal to the connection        *)
(*   SpecModes     the Client handed packets one by one                    *)
(*   SpecLayout    the arrangement, render passes and _move_focus          *)
(*   SpecFocus     the same without break-pane                             *)
(*   SpecZoom      windows that are split and zoomed, and render passes    *)
(*   SpecCommands  call_command_handler over windows, panes and a Process  *)
(*   SpecMouse     mouse events on the panes of the active window          *)
(***************************************************************************)
EXTENDS Integers, Sequences, FiniteSets, TLC

----------------------------------------------------------------------------
(* Bounds of the model.                                                    *)

\* Bytes the child writes to its pty.
MaxOut == 2
\* Calls of Process.write_input.
MaxIn == 1
\* Interrupted os.write attempts inside one write_input call.
MaxEintr == 1
\* Calls of Process.send_signal.
MaxSignals == 1
\* Packets the server sends to the client.
MaxPackets == 2
\* Packets the client tries to send to the server.
MaxSends == 3
\* Keys typed on the client's stdin.
MaxKeys == 1
\* panes ever created, and windows open at a time
MaxPanes == 3
MaxWindows == 2
\* directories on PATH
MaxPath == 2
\* set_size calls from outside Process.start
MaxResizes == 1
\* packets handed to Client._process directly
MaxProcessed == 3

----------------------------------------------------------------------------
(* Values.                                                                 *)

None == "None"
\* The file descriptor os.openpty() returned for the master side.
MasterFd == "master_fd"
\* The pid os.fork() returned in the parent.
ChildPid == "child_pid"

\* Symbols standing for the bracketed-paste markers '\x1b[200~', '\x1b[201~'.
PasteStart == "ESC[200~"
PasteEnd == "ESC[201~"

SIGKILL == "SIGKILL"
SIGTERM == "SIGTERM"
Signals == {SIGKILL, SIGTERM}

\* The child's i-th byte is the number i, so that any byte fed twice, dropped
\* or out of order shows.
OutByte(i) == i

\* What the user types, as a small alphabet.
Payloads == {<<"x">>, <<"x", "y">>}
\* The longest payload handed to os.write: two bytes and the two paste markers.
MaxPayload == 4

\* The packet delimiter b'\0'.
NUL == "NUL"

\* The packets a server sends: cmd and data.
ServerPackets ==
    {[cmd |-> "out", data |-> "text"], [cmd |-> "suspend", data |-> ""]}
        \cup {[cmd |-> "mode", data |-> d] : d \in {"raw", "cooked", "restore"}}

\* What _get_size reads from the client's terminal: rows and columns.
Sizes == {<<40, 120>>, <<24, 80>>}

\* The command text a client is started with to run a command.
CommandTexts == {"split-window", "kill-pane"}

\* The one key there is to type.
Key == "k"

\* No active window.
NoWindow == 0

\* The write position the renderer gives the body: a box on the screen.
BodyBoxes == {[xpos |-> 0, ypos |-> 0, width |-> 9, height |-> 6]}

Directions == {"left", "right", "up", "down"}

\* What a directory of PATH can hold under the name command[0]: nothing, a
\* file that is not executable, an executable file that os.execv fails on
\* (it raises OSError), and a program that os.execv starts.
PathEntries == {"missing", "not executable", "exec fails", "program"}

\* No exit status yet.
NoStatus == -1

\* The size a Process starts with (self.sx, self.sy).
sx == 120
sy == 24

IsPrefix(s, t) == Len(s) <= Len(t) /\ SubSeq(t, 1, Len(s)) = s

----------------------------------------------------------------------------
VARIABLES
    \* ---- Process fields (process.py:33-53)
    pid,             \* self.pid
    is_terminated,   \* self.is_terminated
    slow_motion,     \* self.slow_motion
    master,          \* self.master
    \* ---- the operating system
    fdOpen,          \* the master fd is open in the parent's fd table
    child,           \* "none" | "running" | "exited" (zombie) | "reaped"
    ptyOut,          \* bytes the child wrote, not yet read from the master
    produced,        \* every byte the child wrote, in order
    \* ---- the event loop and its executor
    reader,          \* a read callback is registered for the master fd
    waitTask,        \* wait_for_finished: "none" | "running" | "finished"
    delayTasks,      \* connect_with_delay tasks sleeping in the executor
    callQueue,       \* callbacks queued by call_from_executor, FIFO
    \* ---- what the Process did, as seen from outside
    fed,             \* bytes given to stream.feed, in order
    feeds,           \* non-empty stream.feed calls
    invalidates,     \* invalidate() calls
    eofSeen,         \* a read on the master returned end-of-stream
    readAfterEof,    \* a read was performed after eofSeen
    writeCalls,      \* one record per write_input call, in order
    signalCalls,     \* one record per send_signal call, in order
    done_calls       \* per done_callback() call, what it found

procFields == <<pid, is_terminated, slow_motion, master>>
osVars == <<fdOpen, child, ptyOut, produced>>
loopVars == <<reader, waitTask, delayTasks, callQueue>>
readObs == <<fed, feeds, invalidates, eofSeen, readAfterEof>>
procVars == <<procFields, osVars, loopVars, readObs, writeCalls, signalCalls,
              done_calls>>

VARIABLES
    \* ---- Client (client.py:23-135)
    clientPc,        \* attach(): "new" | "attached" | "returned" | "raised"
    data_buffer,     \* attach's data_buffer
    mode_context_managers,   \* self._mode_context_managers
    \* ---- the socket and the terminal
    srvSent,         \* every byte the server wrote to the socket, in order
    srvClosed,       \* the server closed the connection
    nRecv,           \* how many of those bytes socket.recv has returned
    stdin,           \* keys typed and not yet read from sys.stdin
    \* ---- what the Client did, as seen from outside
    processed,       \* the argument of every _process call, in order
    eofRecv,         \* socket.recv returned b''
    sendCalls,       \* the packets _send_packet was called with, in order
    sendShort        \* a socket.send took fewer bytes than it was given

clientVars == <<clientPc, data_buffer, mode_context_managers, srvSent,
                srvClosed, nRecv, stdin, processed, eofRecv, sendCalls,
                sendShort>>

\* The way of a size packet from the client's terminal to the server's
\* connection.
VARIABLES
    sizesRead,       \* what _get_size returned to each _send_size, in order
    toServer,        \* bytes the client sent that the server has yet to read
    srvBuffer,       \* bytes the server read, up to the next NUL
    viewport,        \* the rows and columns the connection recorded
    applied          \* how many size packets the connection applied

connVars == <<sizesRead, toServer, srvBuffer, viewport, applied>>

\* The arrangement and the LayoutManager's render information.
VARIABLES
    windows,              \* arrangement.windows: window id -> its split
    active_window,        \* arrangement.active_window, NoWindow when none
    nextPane,             \* panes created so far
    pane_write_positions, \* LayoutManager.pane_write_positions
    body_write_position,  \* LayoutManager.body_write_position, <<>> for None
    focusExc,             \* how the last focus_* call ended
    focusDir,             \* which focus_* function was called last
    zoom                  \* the windows whose zoom flag is set

arrangementVars == <<windows, active_window, nextPane>>
layoutVars ==
    <<arrangementVars, pane_write_positions, body_write_position, focusExc,
      focusDir, zoom>>

\* The size of the pane of the Process.
VARIABLES
    screen,           \* self.screen: its lines and columns
    winsize,          \* the window size the kernel holds for the pty
    sizeCalls         \* one record per set_size call from outside start()

sizeVars == <<screen, winsize, sizeCalls>>

\* The forked child of a Process made by Process.from_command.
VARIABLES
    childPc,          \* where the child is: "not forked", "in_child", "execv",
                      \* "execed" (the target program runs) or "exited"
    before_exec_func, \* "None", or what the function does: "returns", "raises"
    PATH,             \* per directory of PATH, what is at join(p, command[0])
    pathIndex,        \* the directory the for loop of execv is at
    exitStatus        \* the status the child's Python code exited with

childVars == <<childPc, before_exec_func, PATH, pathIndex, exitStatus>>

\* The last call of call_command_handler.
VARIABLES
    lastCall          \* the command and its parameters, the wrappers invoked,
                      \* the texts given to show_message, the methods of
                      \* the active window called, what was raised out of
                      \* the call; tick tells one call from the next

cmdVars == <<lastCall>>

VARIABLES
    \* ---- Mouse events on a pane (layout.py:72-124)
    current_buffer_name,  \* cli.current_buffer_name
    mouse_modes,          \* process.screen: the three *mouse_support_enabled
    lastMouse             \* the last mouse_handler call: the pane it was
                          \* for; tick tells one call from the next

uiVars == <<current_buffer_name, mouse_modes>>
mouseLog == <<lastMouse>>

vars ==
    <<procVars, clientVars, layoutVars, childVars, sizeVars, cmdVars,
      connVars, uiVars, mouseLog>>

\* What no step of the Process touches, what no step of the Client does, and
\* what the arrangement and the layout leave alone. send_signal and
\* _move_focus are also called by commands: they leave outsideSignal and
\* outsideFocus alone, and their caller says what becomes of cmdVars.
outsideSignal ==
    <<clientVars, layoutVars, childVars, connVars, uiVars, mouseLog>>
outsideFocus ==
    <<procVars, clientVars, childVars, sizeVars, connVars, zoom, uiVars,
      mouseLog>>
outsideProcess == <<outsideSignal, cmdVars>>
outsideClient ==
    <<procVars, layoutVars, childVars, sizeVars, cmdVars, connVars, uiVars,
      mouseLog>>
outsideLayout == <<outsideFocus, cmdVars>>
outsideChild ==
    <<procVars, clientVars, layoutVars, sizeVars, cmdVars, connVars, uiVars,
      mouseLog>>
outsideConnection ==
    <<procVars, clientVars, layoutVars, childVars, sizeVars, cmdVars, uiVars,
      mouseLog>>
\* write_input is also called by the mouse handler of a pane, which says
\* what becomes of lastMouse.
outsideInput ==
    <<clientVars, layoutVars, childVars, connVars, cmdVars, uiVars>>

----------------------------------------------------------------------------
(* Process.__init__: the pty pair is open, nothing is started.             *)

InitProcess ==
    /\ pid = None
    /\ is_terminated = FALSE
    /\ slow_motion = FALSE
    /\ master = MasterFd
    /\ fdOpen = TRUE
    /\ child = "none"
    /\ ptyOut = <<>>
    /\ produced = <<>>
    /\ reader = FALSE
    /\ waitTask = "none"
    /\ delayTasks = 0
    /\ callQueue = <<>>
    /\ fed = <<>>
    /\ feeds = 0
    /\ invalidates = 0
    /\ eofSeen = FALSE
    /\ readAfterEof = FALSE
    /\ writeCalls = <<>>
    /\ signalCalls = <<>>
    /\ done_calls = <<>>
    /\ screen = [lines |-> sy, columns |-> sx]
    /\ winsize = <<0, 0>>
    /\ sizeCalls = <<>>

----------------------------------------------------------------------------
(* Process.start (process.py:55-62): set_size, fork, connect the reader,   *)
(* hand wait_for_finished to the executor.                                 *)

\* A connect_reader that registers the reader whatever self.master is.
connect_reader_unguarded(m, r) == TRUE

\* connect_reader (process.py:240-243): the reader registration afterwards.
connect_reader(m, r) == IF m # None THEN TRUE ELSE r

Start ==
    /\ pid = None
    /\ child = "none"
    /\ master # None                       \* assert self.master is not None
    /\ winsize' = <<sy, sx>>               \* set_size(self.sx, self.sy)
    /\ screen' = [lines |-> sy, columns |-> sx]
    /\ pid' = ChildPid                     \* _start: os.fork() in the parent
    /\ child' = "running"
    /\ reader' = connect_reader(master, reader)
    /\ waitTask' = "running"               \* run_in_executor(wait_for_finished)
    /\ UNCHANGED <<outsideProcess, sizeCalls, is_terminated, slow_motion, master,
                   fdOpen, ptyOut, produced, delayTasks, callQueue, readObs,
                   writeCalls, signalCalls, done_calls>>

(* The child: it prints to its pty and it exits. Its slave side closes     *)
(* when it exits, which makes the master readable at end-of-stream.        *)

ChildWrite ==
    /\ child = "running"
    /\ Len(produced) < MaxOut
    /\ ptyOut' = Append(ptyOut, OutByte(Len(produced) + 1))
    /\ produced' = Append(produced, OutByte(Len(produced) + 1))
    /\ UNCHANGED <<outsideProcess, sizeVars, procFields, fdOpen, child, loopVars, readObs, writeCalls,
                   signalCalls, done_calls>>

ChildExit ==
    /\ child = "running"
    /\ child' = "exited"
    /\ UNCHANGED <<outsideProcess, sizeVars, procFields, fdOpen, ptyOut, produced, loopVars, readObs,
                   writeCalls, signalCalls, done_calls>>

----------------------------------------------------------------------------
(* _waitpid (process.py:107-124).                                          *)

\* What done_callback finds when it is called: the state of the pty, of the
\* reader registration and of the two fields.
Found(open, registered, m, terminated) ==
    [fdOpen |-> open, reader |-> registered, master |-> m,
     is_terminated |-> terminated]

\* A wait_for_finished that runs done() itself, on the executor thread,
\* instead of handing it to call_from_executor.
wait_for_finished_runs_done ==
    /\ waitTask = "running"
    /\ child = "exited"
    /\ child' = "reaped"
    /\ waitTask' = "finished"
    /\ fdOpen' = FALSE
    /\ reader' = FALSE
    /\ master' = None
    /\ is_terminated' = TRUE
    /\ done_calls' = Append(done_calls, Found(FALSE, FALSE, None, TRUE))
    /\ UNCHANGED <<outsideProcess, sizeVars, pid, slow_motion, ptyOut, produced, delayTasks, callQueue,
                   readObs, writeCalls, signalCalls>>

\* A wait_for_finished that reaps the child and hands nothing to the
\* event loop.
wait_for_finished_forgets_done ==
    /\ waitTask = "running"
    /\ child = "exited"
    /\ child' = "reaped"
    /\ waitTask' = "finished"
    /\ UNCHANGED <<outsideProcess, sizeVars, procFields, fdOpen, ptyOut, produced, reader, delayTasks,
                   callQueue, readObs, writeCalls, signalCalls, done_calls>>

\* wait_for_finished, on an executor thread: os.waitpid returns once the
\* child is a zombie and reaps it; done is queued for the event loop.
wait_for_finished ==
    /\ waitTask = "running"
    /\ child = "exited"
    /\ child' = "reaped"
    /\ waitTask' = "finished"
    /\ callQueue' = Append(callQueue, "done")
    /\ UNCHANGED <<outsideProcess, sizeVars, procFields, fdOpen, ptyOut, produced, reader, delayTasks,
                   readObs, writeCalls, signalCalls, done_calls>>

\* A done that closes the pty but leaves self.master set.
done_keeps_master ==
    /\ callQueue # <<>>
    /\ Head(callQueue) = "done"
    /\ callQueue' = Tail(callQueue)
    /\ fdOpen' = FALSE
    /\ reader' = FALSE
    /\ is_terminated' = TRUE
    /\ done_calls' = Append(done_calls, Found(FALSE, FALSE, master, TRUE))
    /\ UNCHANGED <<outsideProcess, sizeVars, pid, slow_motion, master, child, ptyOut, produced, waitTask,
                   delayTasks, readObs, writeCalls, signalCalls>>

\* A done that calls done_callback first and cleans up after it.
done_calls_back_first ==
    /\ callQueue # <<>>
    /\ Head(callQueue) = "done"
    /\ callQueue' = Tail(callQueue)
    /\ done_calls' =
           Append(done_calls, Found(fdOpen, reader, master, is_terminated))
    /\ fdOpen' = FALSE
    /\ reader' = FALSE
    /\ master' = None
    /\ is_terminated' = TRUE
    /\ UNCHANGED <<outsideProcess, sizeVars, pid, slow_motion, child, ptyOut, produced, waitTask,
                   delayTasks, readObs, writeCalls, signalCalls>>

\* done, on the event loop: close the pty, remove the reader, forget the
\* master, flag the termination, call done_callback.
done ==
    /\ callQueue # <<>>
    /\ Head(callQueue) = "done"
    /\ callQueue' = Tail(callQueue)
    /\ fdOpen' = FALSE                     \* os.close(self.master)
    /\ reader' = FALSE                     \* remove_reader(self.master)
    /\ master' = None
    /\ is_terminated' = TRUE
    \* self.done_callback(), last
    /\ done_calls' = Append(done_calls, Found(FALSE, FALSE, None, TRUE))
    /\ UNCHANGED <<outsideProcess, sizeVars, pid, slow_motion, child, ptyOut, produced, waitTask,
                   delayTasks, readObs, writeCalls, signalCalls>>

----------------------------------------------------------------------------
(* _process_pty_output (process.py:208-245).                               *)

\* What reader.read(1) or reader.read() returns from the bytes available.
ReadData(buf, slow) ==
    IF buf = <<>> THEN <<>>
    ELSE IF slow THEN SubSeq(buf, 1, 1) ELSE buf

\* The master fd is readable: output is waiting, or the slave side is closed.
Readable == ptyOut # <<>> \/ child \in {"exited", "reaped"}

\* A read that in slow motion takes everything available from the master
\* and feeds only its first character.
read_slow_drops ==
    /\ reader
    /\ Readable
    /\ LET d == ReadData(ptyOut, slow_motion) IN
        /\ ptyOut' = <<>>
        /\ fed' = fed \o d
        /\ feeds' = IF d # <<>> THEN feeds + 1 ELSE feeds
        /\ invalidates' = IF d # <<>> THEN invalidates + 1 ELSE invalidates
        /\ eofSeen' = (eofSeen \/ d = <<>>)
        /\ readAfterEof' = (readAfterEof \/ eofSeen)
        /\ reader' = IF d = <<>> \/ slow_motion THEN FALSE ELSE reader
        /\ delayTasks' = IF slow_motion THEN delayTasks + 1 ELSE delayTasks
    /\ UNCHANGED <<outsideProcess, sizeVars, procFields, fdOpen, child, produced, waitTask, callQueue,
                   writeCalls, signalCalls, done_calls>>

\* read, the callback the event loop calls when the master is readable.
read ==
    /\ reader
    /\ Readable
    /\ LET d == ReadData(ptyOut, slow_motion) IN
        /\ ptyOut' = SubSeq(ptyOut, Len(d) + 1, Len(ptyOut))
        /\ fed' = fed \o d                                 \* stream.feed(d)
        /\ feeds' = IF d # <<>> THEN feeds + 1 ELSE feeds
        /\ invalidates' = IF d # <<>> THEN invalidates + 1 ELSE invalidates
        /\ eofSeen' = (eofSeen \/ d = <<>>)
        /\ readAfterEof' = (readAfterEof \/ eofSeen)
        \* remove_reader at end of stream, and always in slow motion
        /\ reader' = IF d = <<>> \/ slow_motion THEN FALSE ELSE reader
        \* run_in_executor(connect_with_delay)
        /\ delayTasks' = IF slow_motion THEN delayTasks + 1 ELSE delayTasks
    /\ UNCHANGED <<outsideProcess, sizeVars, procFields, fdOpen, child, produced, waitTask, callQueue,
                   writeCalls, signalCalls, done_calls>>

\* connect_with_delay, on an executor thread: sleep, then queue connect_reader.
connect_with_delay ==
    /\ delayTasks > 0
    /\ delayTasks' = delayTasks - 1
    /\ callQueue' = Append(callQueue, "connect_reader")
    /\ UNCHANGED <<outsideProcess, sizeVars, procFields, osVars, reader, waitTask, readObs, writeCalls,
                   signalCalls, done_calls>>

\* connect_reader, called back on the event loop.
ConnectReaderCallback ==
    /\ callQueue # <<>>
    /\ Head(callQueue) = "connect_reader"
    /\ callQueue' = Tail(callQueue)
    /\ reader' = connect_reader(master, reader)
    /\ UNCHANGED <<outsideProcess, sizeVars, procFields, osVars, waitTask, delayTasks, readObs,
                   writeCalls, signalCalls, done_calls>>

\* self.slow_motion is a debugging switch, set from outside the class.
SetSlowMotion ==
    /\ slow_motion' = ~slow_motion
    /\ UNCHANGED <<outsideProcess, sizeVars, pid, is_terminated, master, osVars, loopVars, readObs,
                   writeCalls, signalCalls, done_calls>>

----------------------------------------------------------------------------
(* Process.write_input (process.py:179-198).                               *)

\* The payload after the bracketed-paste decision.
\* A wrap that looks at the paste argument only.
PasteWrap_whenever_paste(data, paste, enabled) ==
    IF paste THEN <<PasteStart>> \o data \o <<PasteEnd>> ELSE data

PasteWrap(data, paste, enabled) ==
    IF paste /\ enabled THEN <<PasteStart>> \o data \o <<PasteEnd>> ELSE data

\* What one os.write(master, d) that is not interrupted can do: the number
\* of bytes the kernel accepts, 0 standing for an OSError other than EINTR.
\* A signal arriving after part of the data was transferred makes the call
\* return a short count. A closed fd gives EBADF; once the slave side is
\* closed the write may fail with EIO.
OsWriteResults(d) ==
    IF ~fdOpen THEN {0}
    ELSE IF child \in {"exited", "reaped"} THEN 0..Len(d)
    ELSE 1..Len(d)

\* A loop that gives up at the first interrupted os.write.
WriteLoop_gives_up(eintr, accepted, attempts) ==
    [oswrites |-> attempts + 1,
     accepted |-> IF eintr > 0 THEN 0 ELSE accepted,
     exc |-> IF eintr > 0 THEN "OSError" ELSE "none"]

\* The while loop of write_input when the first eintr calls of os.write are
\* interrupted (errno 4: continue) and the next one is not: it took
\* `accepted` bytes, or raised another OSError (accepted = 0), which the
\* except clause swallows; either way the loop ends with `return`.
RECURSIVE WriteLoop(_, _, _)
WriteLoop(eintr, accepted, attempts) ==
    IF attempts < eintr
    THEN WriteLoop(eintr, accepted, attempts + 1)
    ELSE [oswrites |-> attempts + 1, accepted |-> accepted, exc |-> "none"]

\* write_input(data, paste): enabled is what self.screen.bracketed_paste_enabled
\* reads at the call; eintr is the number of attempts that failed with errno 4
\* before the attempt that ended the loop, which accepted `accepted` bytes.
\* The return value of os.write is not looked at. The record says what the
\* call was given and what it did: the master it saw, whether that fd was open, the bytes it handed
\* to os.write, the number of os.write calls, the bytes the kernel took.
write_input(data, paste, enabled, eintr, accepted) ==
    /\ Len(writeCalls) < MaxIn
    /\ LET d == PasteWrap(data, paste, enabled) IN
        IF master = None
        THEN /\ eintr = 0
             /\ accepted = 0
             /\ writeCalls' = Append(writeCalls,
                    [data |-> data, paste |-> paste, enabled |-> enabled,
                     master |-> master, fdOpen |-> fdOpen, written |-> <<>>,
                     eintr |-> 0, oswrites |-> 0, accepted |-> 0,
                     exc |-> "none"])
        ELSE /\ accepted \in OsWriteResults(d)
             /\ LET loop == WriteLoop(eintr, accepted, 0)
                IN writeCalls' = Append(writeCalls,
                    [data |-> data, paste |-> paste, enabled |-> enabled,
                     master |-> master, fdOpen |-> fdOpen, written |-> d,
                     eintr |-> eintr, oswrites |-> loop.oswrites,
                     accepted |-> loop.accepted, exc |-> loop.exc])
    /\ UNCHANGED <<outsideInput, sizeVars, procFields, osVars, loopVars, readObs, signalCalls,
                   done_calls>>

\* The bytes write_input calls handed to os.write, and the bytes the kernel
\* accepted on the master, each in call order.
RECURSIVE Submitted(_)
Submitted(calls) ==
    IF calls = <<>> THEN <<>>
    ELSE Submitted(SubSeq(calls, 1, Len(calls) - 1)) \o calls[Len(calls)].written

RECURSIVE PtyIn(_)
PtyIn(calls) ==
    IF calls = <<>> THEN <<>>
    ELSE PtyIn(SubSeq(calls, 1, Len(calls) - 1))
            \o SubSeq(calls[Len(calls)].written, 1, calls[Len(calls)].accepted)

----------------------------------------------------------------------------
(* Process.set_size (process.py:126-132).                                  *)

\* A set_size that does not look at self.master.
set_size_unguarded(width, height) ==
    /\ Len(sizeCalls) < MaxResizes
    /\ LET exc == IF master = None \/ ~fdOpen THEN "OSError" ELSE "none"
       IN /\ sizeCalls' = Append(sizeCalls,
                 [width |-> width, height |-> height, master |-> master,
                  fdOpen |-> fdOpen, ioctl |-> TRUE, exc |-> exc])
          /\ IF exc = "none"
             THEN /\ winsize' = <<height, width>>
                  /\ screen' = [lines |-> height, columns |-> width]
             ELSE UNCHANGED <<winsize, screen>>
    /\ UNCHANGED <<outsideProcess, procVars>>

\* set_size(width, height): set_terminal_size on the master when there is
\* one (it raises OSError on a closed fd), then the screen is resized. The
\* record says what the call was given, the master it saw, whether it called
\* set_terminal_size and what it raised.
set_size(width, height) ==
    /\ Len(sizeCalls) < MaxResizes
    /\ LET ioctl == master # None
           exc == IF ioctl /\ ~fdOpen THEN "OSError" ELSE "none"
       IN /\ sizeCalls' = Append(sizeCalls,
                 [width |-> width, height |-> height, master |-> master,
                  fdOpen |-> fdOpen, ioctl |-> ioctl, exc |-> exc])
          /\ IF exc = "none"
             THEN /\ winsize' = IF ioctl THEN <<height, width>> ELSE winsize
                  /\ screen' = [lines |-> height, columns |-> width]
             ELSE UNCHANGED <<winsize, screen>>
    /\ UNCHANGED <<outsideProcess, procVars>>

----------------------------------------------------------------------------
(* Process.send_signal (process.py:255-260).                               *)

\* What os.kill(pid, sig) raises: nothing while the pid names the child or
\* its zombie; once the child was waited for, the pid is free, and the call
\* either fails with ESRCH or signals whatever process reuses the pid.
OsKillResults == IF child = "reaped" THEN {"none", "OSError"} ELSE {"none"}

\* A send_signal that looks at self.pid only, not at self.is_terminated.
send_signal_ignores_flag(sig, result) ==
    /\ Len(signalCalls) < MaxSignals
    /\ IF pid # None
       THEN /\ result \in OsKillResults
            /\ child' = IF child = "running" /\ sig = SIGKILL
                        THEN "exited" ELSE child
            /\ signalCalls' = Append(signalCalls,
                    [pid |-> pid, is_terminated |-> is_terminated,
                     child |-> child, killed |-> TRUE, exc |-> result])
       ELSE /\ result = "none"
            /\ child' = child
            /\ signalCalls' = Append(signalCalls,
                    [pid |-> pid, is_terminated |-> is_terminated,
                     child |-> child, killed |-> FALSE, exc |-> "none"])
    /\ UNCHANGED <<outsideSignal, sizeVars, procFields, fdOpen, ptyOut,
                   produced, loopVars, readObs, writeCalls, done_calls>>

\* send_signal(sig). The record says what the call did: the pid and flag it
\* saw, the state of the child, whether os.kill was called, what was raised.
send_signal(sig, result) ==
    /\ Len(signalCalls) < MaxSignals
    /\ IF pid # None /\ ~is_terminated
       THEN /\ result \in OsKillResults
            /\ child' = IF child = "running" /\ sig = SIGKILL
                        THEN "exited" ELSE child
            /\ signalCalls' = Append(signalCalls,
                    [pid |-> pid, is_terminated |-> is_terminated,
                     child |-> child, killed |-> TRUE, exc |-> result])
       ELSE /\ result = "none"
            /\ child' = child
            /\ signalCalls' = Append(signalCalls,
                    [pid |-> pid, is_terminated |-> is_terminated,
                     child |-> child, killed |-> FALSE, exc |-> "none"])
    /\ UNCHANGED <<outsideSignal, sizeVars, procFields, fdOpen, ptyOut,
                   produced, loopVars, readObs, writeCalls, done_calls>>

----------------------------------------------------------------------------
(* Client (client.py:23-135). A packet is JSON text followed by b'\0'. The *)
(* JSON text of a packet is modelled as two symbols, its cmd and its data: *)
(* a stream can be cut between them, and only the two together parse.      *)

InitClient ==
    /\ clientPc = "new"
    /\ data_buffer = <<>>
    /\ mode_context_managers = <<>>
    /\ srvSent = <<>>
    /\ srvClosed = FALSE
    /\ nRecv = 0
    /\ stdin = <<>>
    /\ processed = <<>>
    /\ eofRecv = FALSE
    /\ sendCalls = <<>>
    /\ sendShort = FALSE

\* json.dumps(packet).encode('utf-8')
json_dumps(packet) == <<packet.cmd, packet.data>>

\* json.loads(data.decode('utf-8')): whether it parses, and to what.
IsJson(bytes) == Len(bytes) = 2 /\ bytes[1] # NUL /\ bytes[2] # NUL
json_loads(bytes) == [cmd |-> bytes[1], data |-> bytes[2]]

\* The bytes handed to socket.send.
PacketBytes(packet) == json_dumps(packet) \o <<NUL>>

\* The length every packet has in this encoding.
PacketLen == Len(PacketBytes(CHOOSE packet \in ServerPackets : TRUE))

\* What socket.send can return for a packet, 0 standing for the raise.
SendResults == 0..PacketLen

\* The server writes one packet to the socket.
ServerSend(packet) ==
    /\ ~srvClosed
    /\ Len(srvSent) + PacketLen <= MaxPackets * PacketLen
    /\ srvSent' = srvSent \o json_dumps(packet) \o <<NUL>>
    /\ UNCHANGED <<outsideClient, clientPc, data_buffer, mode_context_managers,
                   srvClosed, nRecv, stdin, processed, eofRecv, sendCalls,
                   sendShort>>

\* The server goes on sending for as long as its panes have output: one more
\* 'out' packet after the first MaxPackets packets. srvSent, nRecv and
\* processed record the last MaxPackets packets of the stream: the oldest
\* one, which the client has read and processed, leaves the record.
ServerSendsOn ==
    /\ ~srvClosed
    /\ Len(srvSent) = MaxPackets * PacketLen
    /\ nRecv = Len(srvSent)
    /\ data_buffer = <<>>
    /\ Len(processed) = MaxPackets
    /\ srvSent' = SubSeq(srvSent, PacketLen + 1, Len(srvSent))
                      \o PacketBytes([cmd |-> "out", data |-> "text"])
    /\ nRecv' = nRecv - PacketLen
    /\ processed' = Tail(processed)
    /\ UNCHANGED <<outsideClient, clientPc, data_buffer, mode_context_managers,
                   srvClosed, stdin, eofRecv, sendCalls, sendShort>>

\* The connection ends. The last packet may have got onto the wire only in
\* part (lost of its bytes the client has not read yet).
ServerClose(lost) ==
    /\ ~srvClosed
    /\ lost <= Len(srvSent) - nRecv
    /\ srvClosed' = TRUE
    /\ srvSent' = SubSeq(srvSent, 1, Len(srvSent) - lost)
    /\ UNCHANGED <<outsideClient, clientPc, data_buffer, mode_context_managers,
                   nRecv, stdin, processed, eofRecv, sendCalls,
                   sendShort>>

\* The user types a key.
KeysSent ==
    LET n[i \in 0..Len(sendCalls)] ==
            IF i = 0 THEN 0
            ELSE n[i - 1] + (IF sendCalls[i].cmd = "in"
                             THEN Len(sendCalls[i].data) ELSE 0)
    IN n[Len(sendCalls)]

UserTypes ==
    /\ Len(stdin) + KeysSent < MaxKeys
    /\ stdin' = Append(stdin, Key)
    /\ UNCHANGED <<outsideClient, clientPc, data_buffer, mode_context_managers,
                   srvSent, srvClosed, nRecv, processed, eofRecv, sendCalls,
                   sendShort>>

----------------------------------------------------------------------------
(* Client._send_packet (client.py:124-128) on the non-blocking socket.     *)

\* One socket.send: the socket takes `accepted` of the bytes, all of them, or
\* only the first ones when its send buffer is nearly full, or none
\* (accepted = 0), and then socket.send raises socket.error (EAGAIN). The
\* return value of socket.send is not looked at.
Short(packet, accepted) == accepted < Len(PacketBytes(packet))

\* Client._send_size (client.py:130-135).
SizePacket(size) == [cmd |-> "size", data |-> size]

----------------------------------------------------------------------------
(* Client._process (client.py:84-113): what a packet does to the stack of  *)
(* terminal-mode context managers.                                         *)

\* A _process whose 'restore' drops the oldest context instead of the newest.
_process_pops_oldest(modes, packet) ==
    IF packet.cmd = "mode"
    THEN IF packet.data = "raw" THEN Append(modes, "raw")
         ELSE IF packet.data = "cooked" THEN Append(modes, "cooked")
         ELSE IF packet.data = "restore" /\ modes # <<>>
              THEN SubSeq(modes, 2, Len(modes))
         ELSE modes
    ELSE modes

_process(modes, packet) ==
    IF packet.cmd = "mode"
    THEN IF packet.data = "raw" THEN Append(modes, "raw")
         ELSE IF packet.data = "cooked" THEN Append(modes, "cooked")
         ELSE IF packet.data = "restore" /\ modes # <<>>
              THEN SubSeq(modes, 1, Len(modes) - 1)
         ELSE modes
    ELSE modes

\* Client._process called with the bytes of one packet.
ProcessPacket(packet) ==
    /\ Len(processed) < MaxProcessed
    /\ processed' = Append(processed, json_dumps(packet))
    /\ mode_context_managers' = _process(mode_context_managers,
                                         json_loads(json_dumps(packet)))
    /\ UNCHANGED <<outsideClient, clientPc, data_buffer, srvSent, srvClosed,
                   nRecv, stdin, eofRecv, sendCalls, sendShort>>

----------------------------------------------------------------------------
(* Client.attach (client.py:40-82).                                        *)

\* Client.run_command (client.py:33-38), called on a client that is not
\* attached: one run-command packet.
run_command(command, accepted) ==
    /\ clientPc = "new"
    /\ Len(sendCalls) < MaxSends
    /\ sendCalls' = Append(sendCalls, [cmd |-> "run-command", data |-> command])
    /\ sendShort' =
           (sendShort \/ Short([cmd |-> "run-command", data |-> command],
                               accepted))
    /\ clientPc' = IF accepted = 0 THEN "raised" ELSE "new"
    /\ UNCHANGED <<outsideClient, data_buffer, mode_context_managers, srvSent,
                   srvClosed, nRecv, stdin, processed, eofRecv>>

\* An attach that shakes hands before it tells its size.
attach_handshake_first(size, detach_other_clients, a1, a2) ==
    /\ clientPc = "new"
    /\ Len(sendCalls) + 2 <= MaxSends
    /\ LET first == [cmd |-> "start-gui", data |-> ""]
           second == SizePacket(size)
       IN IF a1 = 0
          THEN /\ a2 = 0
               /\ sendCalls' = Append(sendCalls, first)
               /\ sendShort' = TRUE
               /\ clientPc' = "raised"
          ELSE /\ sendCalls' = Append(Append(sendCalls, first), second)
               /\ sendShort' = (sendShort \/ Short(first, a1) \/ Short(second, a2))
               /\ clientPc' = IF a2 = 0 THEN "raised" ELSE "attached"
    /\ UNCHANGED <<outsideClient, data_buffer, mode_context_managers, srvSent,
                   srvClosed, nRecv, stdin, processed, eofRecv>>

\* attach up to the loop: _send_size, the start-gui packet, raw mode.
attach(size, detach_other_clients, a1, a2) ==
    /\ clientPc = "new"
    /\ Len(sendCalls) + 2 <= MaxSends
    /\ LET first == SizePacket(size)
           second == [cmd |-> "start-gui", data |-> ""]
       IN IF a1 = 0
          THEN /\ a2 = 0
               /\ sendCalls' = Append(sendCalls, first)
               /\ sendShort' = TRUE
               /\ clientPc' = "raised"
          ELSE /\ sendCalls' = Append(Append(sendCalls, first), second)
               /\ sendShort' = (sendShort \/ Short(first, a1) \/ Short(second, a2))
               /\ clientPc' = IF a2 = 0 THEN "raised" ELSE "attached"
    /\ UNCHANGED <<outsideClient, data_buffer, mode_context_managers, srvSent,
                   srvClosed, nRecv, stdin, processed, eofRecv>>

\* data_buffer = data
Accumulate_overwrites(buffer, data) == data

\* data_buffer += data
Accumulate(buffer, data) == buffer \o data

HasNul(buffer) == \E i \in 1..Len(buffer) : buffer[i] = NUL
\* data_buffer.index(b'\0'), counted from 1
IndexOfNul(buffer) ==
    CHOOSE i \in 1..Len(buffer) :
        buffer[i] = NUL /\ \A j \in 1..(i - 1) : buffer[j] # NUL

\* while b'\0' in data_buffer: process the packet before it, keep the rest.
\* The loop ends early when _process raises on a packet that does not parse.
RECURSIVE DrainPackets(_, _, _)
DrainPackets(buffer, seen, modes) ==
    IF ~HasNul(buffer)
    THEN [data_buffer |-> buffer, processed |-> seen, modes |-> modes,
          exc |-> "none"]
    ELSE LET pos == IndexOfNul(buffer)
             packet == SubSeq(buffer, 1, pos - 1)
         IN IF ~IsJson(packet)
            THEN [data_buffer |-> buffer, processed |-> Append(seen, packet),
                  modes |-> modes, exc |-> "ValueError"]
            ELSE DrainPackets(SubSeq(buffer, pos + 1, Len(buffer)),
                              Append(seen, packet),
                              _process(modes, json_loads(packet)))

\* What select() reports for the socket: bytes are waiting, or the peer
\* closed and nothing is left to read.
SocketReadable == nRecv < Len(srvSent) \/ srvClosed

\* A detach that tells the server: it sends a packet before it returns.
detach_sends_packet ==
    /\ eofRecv' = TRUE
    /\ clientPc' = "returned"
    /\ sendCalls' = Append(sendCalls, [cmd |-> "detach", data |-> ""])
    /\ UNCHANGED <<outsideClient, data_buffer, mode_context_managers, nRecv,
                   processed, srvSent, srvClosed, stdin, sendShort>>

\* A detach that treats a half-received packet as an error.
detach_raises_on_partial ==
    /\ eofRecv' = TRUE
    /\ clientPc' = IF data_buffer = <<>> THEN "returned" ELSE "raised"
    /\ UNCHANGED <<outsideClient, data_buffer, mode_context_managers, nRecv,
                   processed, srvSent, srvClosed, stdin, sendCalls,
                   sendShort>>

\* data == b'' (client.py:64-72): reset the terminal through a
\* Vt100_Output and return from attach. Nothing is sent, nothing is processed.
detach ==
    /\ eofRecv' = TRUE
    /\ clientPc' = "returned"
    /\ UNCHANGED <<outsideClient, data_buffer, mode_context_managers, nRecv,
                   processed, srvSent, srvClosed, stdin, sendCalls,
                   sendShort>>

\* Otherwise (client.py:73-79): buffer the n bytes and process what is complete.
receive(n) ==
    /\ n \in 1..(Len(srvSent) - nRecv)
    /\ nRecv' = nRecv + n
    /\ LET data == SubSeq(srvSent, nRecv + 1, nRecv + n)
           r == DrainPackets(Accumulate(data_buffer, data), processed,
                             mode_context_managers)
       IN /\ data_buffer' = r.data_buffer
          /\ processed' = r.processed
          /\ mode_context_managers' = r.modes
          /\ clientPc' = IF r.exc = "none" THEN "attached" ELSE "raised"
    /\ UNCHANGED <<outsideClient, eofRecv, srvSent, srvClosed, stdin, sendCalls,
                   sendShort>>

\* One round of the loop with the socket readable: recv(1024) returns the
\* next n bytes, or b'' at the end of a closed stream.
attach_socket(n) ==
    /\ clientPc = "attached"
    /\ SocketReadable
    /\ IF nRecv = Len(srvSent)
       THEN n = 0 /\ detach
       ELSE receive(n)

\* One round of the loop with only stdin readable: _process_stdin
\* (client.py:115-122) reads what was typed and sends it as an 'in' packet.
attach_stdin(accepted) ==
    /\ clientPc = "attached"
    /\ ~SocketReadable
    /\ stdin # <<>>
    /\ Len(sendCalls) < MaxSends
    /\ stdin' = <<>>
    /\ sendCalls' = Append(sendCalls, [cmd |-> "in", data |-> stdin])
    /\ sendShort' = (sendShort \/ Short([cmd |-> "in", data |-> stdin], accepted))
    /\ clientPc' = IF accepted = 0 THEN "raised" ELSE "attached"
    /\ UNCHANGED <<outsideClient, data_buffer, mode_context_managers, srvSent,
                   srvClosed, nRecv, processed, eofRecv>>

\* SIGWINCH while attached: call_on_sigwinch runs _send_size.
sigwinch(size, accepted) ==
    /\ clientPc = "attached"
    /\ Len(sendCalls) < MaxSends
    /\ sendCalls' = Append(sendCalls, SizePacket(size))
    /\ sendShort' = (sendShort \/ Short(SizePacket(size), accepted))
    /\ clientPc' = IF accepted = 0 THEN "raised" ELSE "attached"
    /\ UNCHANGED <<outsideClient, data_buffer, mode_context_managers, srvSent,
                   srvClosed, nRecv, stdin, processed, eofRecv>>

----------------------------------------------------------------------------
(* The arrangement (arrangement.py). A window is its root split: the panes  *)
(* in order, side by side when `vertical`, else stacked, and the active     *)
(* pane. Splits are not nested in this model.                               *)

InitLayout ==
    /\ windows = <<>>
    /\ active_window = NoWindow
    /\ nextPane = 0
    /\ pane_write_positions = <<>>
    /\ body_write_position = <<>>
    /\ focusExc = "not called"
    /\ focusDir = "not called"
    /\ zoom = {}

WindowIds == 1..MaxWindows
PanesIn(w) == {windows[w].panes[i] : i \in DOMAIN windows[w].panes}

\* The sequence without the element x.
Without(seq, x) ==
    LET F[i \in 0..Len(seq)] ==
            IF i = 0 THEN <<>>
            ELSE IF seq[i] = x THEN F[i - 1] ELSE Append(F[i - 1], seq[i])
    IN F[Len(seq)]

\* The sequence with y put in right after x.
InsertAfter(seq, x, y) ==
    LET F[i \in 0..Len(seq)] ==
            IF i = 0 THEN <<>>
            ELSE IF seq[i] = x THEN Append(Append(F[i - 1], x), y)
                 ELSE Append(F[i - 1], seq[i])
    IN F[Len(seq)]

\* A window with the one pane, which is its active pane.
NewWindow(pane) ==
    [panes |-> <<pane>>, vertical |-> TRUE, active_pane |-> pane]

\* new-window: a window with a new pane, which becomes the active window.
create_window(w) ==
    /\ w \in WindowIds \ DOMAIN windows
    /\ nextPane < MaxPanes
    /\ nextPane' = nextPane + 1
    /\ windows' = [v \in DOMAIN windows \cup {w} |->
                      IF v = w THEN NewWindow(nextPane + 1) ELSE windows[v]]
    /\ active_window' = w
    /\ UNCHANGED <<outsideLayout, pane_write_positions, body_write_position,
                   focusExc, focusDir>>

\* split-window: a new pane next to the active pane, which gets the focus.
add_pane(vertical) ==
    /\ active_window # NoWindow
    /\ nextPane < MaxPanes
    /\ LET win == windows[active_window]
       IN /\ Len(win.panes) = 1 \/ win.vertical = vertical
          /\ windows' = [windows EXCEPT ![active_window] =
                 [panes |-> InsertAfter(win.panes, win.active_pane, nextPane + 1),
                  vertical |-> vertical,
                  active_pane |-> nextPane + 1]]
    /\ nextPane' = nextPane + 1
    /\ UNCHANGED <<outsideLayout, active_window, pane_write_positions,
                   body_write_position, focusExc, focusDir>>

\* remove_pane: the pane leaves its window; a window left empty is removed
\* and another window becomes the active one; a window that loses its active
\* pane gets one of the remaining panes as active pane.
remove_pane(w, pane) ==
    /\ w \in DOMAIN windows
    /\ pane \in PanesIn(w)
    /\ IF Len(windows[w].panes) = 1
       THEN /\ windows' = [v \in DOMAIN windows \ {w} |-> windows[v]]
            /\ IF active_window # w
               THEN UNCHANGED active_window
               ELSE IF DOMAIN windows = {w}
                    THEN active_window' = NoWindow
                    ELSE active_window' \in DOMAIN windows \ {w}
       ELSE /\ \E active \in PanesIn(w) \ {pane} :
                /\ windows[w].active_pane # pane => active = windows[w].active_pane
                /\ windows' = [windows EXCEPT ![w] =
                       [panes |-> Without(windows[w].panes, pane),
                        vertical |-> windows[w].vertical,
                        active_pane |-> active]]
            /\ UNCHANGED active_window
    /\ UNCHANGED <<outsideLayout, nextPane, pane_write_positions,
                   body_write_position, focusExc, focusDir>>

\* break-pane: the active pane leaves its window for a new window of its own,
\* which becomes the active window.
break_pane(w) ==
    /\ active_window # NoWindow
    /\ Len(windows[active_window].panes) > 1
    /\ w \in WindowIds \ DOMAIN windows
    /\ LET win == windows[active_window]
           pane == win.active_pane
       IN \E active \in PanesIn(active_window) \ {pane} :
              windows' = [v \in DOMAIN windows \cup {w} |->
                  IF v = w THEN NewWindow(pane)
                  ELSE IF v = active_window
                       THEN [panes |-> Without(win.panes, pane),
                             vertical |-> win.vertical,
                             active_pane |-> active]
                  ELSE windows[v]]
    /\ active_window' = w
    /\ UNCHANGED <<outsideLayout, nextPane, pane_write_positions,
                   body_write_position, focusExc, focusDir>>

\* A window switch.
select_window(w) ==
    /\ w \in DOMAIN windows
    /\ w # active_window
    /\ active_window' = w
    /\ UNCHANGED <<outsideLayout, windows, nextPane, pane_write_positions,
                   body_write_position, focusExc, focusDir>>

----------------------------------------------------------------------------
(* A render pass (layout.py:260-312, 408-426, 497-519).                    *)

\* How a split shares `total` cells among n children: evenly, the first
\* children one cell more when it does not divide.
ShareOf(total, n, i) == (total \div n) + (IF i <= total % n THEN 1 ELSE 0)
\* The cells before child i.
RECURSIVE OffsetOf(_, _, _)
OffsetOf(total, n, i) ==
    IF i = 1 THEN 0 ELSE OffsetOf(total, n, i - 1) + ShareOf(total, n, i - 1)

\* _create_split: the box of the i-th of the panes of a split drawn in box
\* wp. Side by side there is a vertical line of one column between panes;
\* the box of a pane includes its title bar.
PaneBox(win, wp, i) ==
    LET n == Len(win.panes)
    IN IF win.vertical
       THEN [xpos |-> wp.xpos + OffsetOf(wp.width - (n - 1), n, i) + (i - 1),
             ypos |-> wp.ypos,
             width |-> ShareOf(wp.width - (n - 1), n, i),
             height |-> wp.height]
       ELSE [xpos |-> wp.xpos,
             ypos |-> wp.ypos + OffsetOf(wp.height, n, i),
             width |-> wp.width,
             height |-> ShareOf(wp.height, n, i)]

\* toggle_zoom: the zoom flag of the active window flips.
toggle_zoom ==
    /\ active_window # NoWindow
    /\ zoom' = IF active_window \in zoom
               THEN zoom \ {active_window}
               ELSE zoom \union {active_window}
    /\ UNCHANGED <<procVars, clientVars, childVars, sizeVars, connVars,
                   uiVars, mouseLog, cmdVars, arrangementVars, pane_write_positions,
                   body_write_position, focusExc, focusDir>>

\* An update that does not look at the zoom flag.
update_ignores_zoom ==
    [windows[active_window] EXCEPT !.active_pane = 0]

\* LayoutManager.update: the content of the body. For a zoomed window it is
\* the container of the active pane alone, else the split of the window
\* with all its panes.
update ==
    IF active_window \in zoom
    THEN [panes |-> <<windows[active_window].active_pane>>,
          vertical |-> TRUE, active_pane |-> 0]
    ELSE [windows[active_window] EXCEPT !.active_pane = 0]

\* A render pass that keeps the positions of the passes before it.
write_to_screen_keeps_positions(write_position) ==
    /\ active_window # NoWindow
    /\ LET content == update
       IN pane_write_positions' =
              [pane \in {content.panes[i] : i \in DOMAIN content.panes} |->
                  PaneBox(content, write_position,
                          CHOOSE i \in DOMAIN content.panes :
                              content.panes[i] = pane)]
              @@ pane_write_positions
    /\ body_write_position' = <<write_position>>
    /\ UNCHANGED <<outsideLayout, arrangementVars, focusExc, focusDir>>

\* LayoutManager.update and the render pass it asks for. The pass is
\* HighlightBorders.write_to_screen: forget the positions of the last pass,
\* then render the body; every TracePaneWritePosition records the box of
\* its pane and TraceBodyWritePosition the box of the body.
write_to_screen(write_position) ==
    /\ active_window # NoWindow
    /\ LET content == update
       IN pane_write_positions' =
              [pane \in {content.panes[i] : i \in DOMAIN content.panes} |->
                  PaneBox(content, write_position,
                          CHOOSE i \in DOMAIN content.panes :
                              content.panes[i] = pane)]
    /\ body_write_position' = <<write_position>>
    /\ UNCHANGED <<outsideLayout, arrangementVars, focusExc, focusDir>>

----------------------------------------------------------------------------
(* Focus movement (layout.py:522-563).                                     *)

\* A focus_left that does not skip over the border.
get_x_on_border(direction, wp) ==
    IF direction = "left" THEN wp.xpos - 1
    ELSE IF direction = "right" THEN wp.xpos + wp.width + 1
    ELSE wp.xpos
\* The probe point of focus_left, focus_right, focus_down, focus_up.
get_x(direction, wp) ==
    IF direction = "left" THEN wp.xpos - 2
    ELSE IF direction = "right" THEN wp.xpos + wp.width + 1
    ELSE wp.xpos
get_y(direction, wp) ==
    IF direction = "down" THEN wp.ypos + wp.height + 1
    ELSE IF direction = "up" THEN wp.ypos - 1
    ELSE wp.ypos

Contains(wp, x, y) ==
    /\ wp.xpos <= x /\ x < wp.xpos + wp.width
    /\ wp.ypos <= y /\ y < wp.ypos + wp.height

\* _move_focus: the position of the active pane of the active window is
\* looked up without a check; then the first recorded pane whose box holds
\* the probe point becomes the active pane of the active window.
_move_focus(direction) ==
    /\ active_window # NoWindow
    /\ focusDir' = direction
    /\ LET active == windows[active_window].active_pane
       IN IF active \notin DOMAIN pane_write_positions
          THEN /\ focusExc' = "KeyError"
               /\ UNCHANGED windows
          ELSE LET write_pos == pane_write_positions[active]
                   x == get_x(direction, write_pos)
                   y == get_y(direction, write_pos)
                   found == {pane \in DOMAIN pane_write_positions :
                                Contains(pane_write_positions[pane], x, y)}
               IN /\ focusExc' = "none"
                  /\ IF found = {}
                     THEN UNCHANGED windows
                     ELSE \E pane \in found :
                              windows' = [windows EXCEPT
                                  ![active_window].active_pane = pane]
    /\ UNCHANGED <<outsideFocus, active_window, nextPane,
                   pane_write_positions, body_write_position>>

focus_left == _move_focus("left") /\ UNCHANGED cmdVars
focus_right == _move_focus("right") /\ UNCHANGED cmdVars
focus_down == _move_focus("down") /\ UNCHANGED cmdVars
focus_up == _move_focus("up") /\ UNCHANGED cmdVars

----------------------------------------------------------------------------
(* The child after the fork (process.py:65-85, 134-161).                   *)

InitChild ==
    /\ childPc = "not forked"
    /\ before_exec_func = "None"
    /\ PATH = <<>>
    /\ pathIndex = 0
    /\ exitStatus = NoStatus

\* os.fork() returned 0 in a Process made by from_command, in an environment
\* with this PATH and with this before_exec_func.
fork(path, before) ==
    /\ childPc = "not forked"
    /\ childPc' = "in_child"
    /\ PATH' = path
    /\ before_exec_func' = before
    /\ UNCHANGED <<outsideChild, pathIndex, exitStatus>>

\* _in_child up to the for loop of execv: the fds are set up, then
\* exec_func starts with before_exec_func. An exception from it is caught by
\* `except Exception` and the child exits with 1.
_in_child ==
    /\ childPc = "in_child"
    /\ IF before_exec_func = "raises"
       THEN /\ childPc' = "exited"
            /\ exitStatus' = 1
            /\ UNCHANGED pathIndex
       ELSE /\ childPc' = "execv"
            /\ pathIndex' = 1
            /\ UNCHANGED exitStatus
    /\ UNCHANGED <<outsideChild, PATH, before_exec_func>>

\* One round of `for p in os.environ['PATH'].split(':')`: os.execv is called
\* when the path exists and is executable; it does not return when it
\* works, and its OSError ends the child with status 1.
execv ==
    /\ childPc = "execv"
    /\ pathIndex <= Len(PATH)
    /\ IF PATH[pathIndex] = "program"
       THEN /\ childPc' = "execed"
            /\ UNCHANGED <<pathIndex, exitStatus>>
       ELSE IF PATH[pathIndex] = "exec fails"
       THEN /\ childPc' = "exited"
            /\ exitStatus' = 1
            /\ UNCHANGED pathIndex
       ELSE /\ pathIndex' = pathIndex + 1
            /\ UNCHANGED <<childPc, exitStatus>>
    /\ UNCHANGED <<outsideChild, PATH, before_exec_func>>

\* The for loop is over: execv returns, nothing was raised, and _in_child
\* goes on to os._exit(0).
execv_returns ==
    /\ childPc = "execv"
    /\ pathIndex > Len(PATH)
    /\ childPc' = "exited"
    /\ exitStatus' = 0
    /\ UNCHANGED <<outsideChild, PATH, before_exec_func, pathIndex>>

----------------------------------------------------------------------------
(* A size packet on its way (client.py:124-135): _send_size reads the size *)
(* of the terminal and sends it; the server cuts its input at the NUL      *)
(* bytes, parses each piece and records the size for the connection.       *)

\* No viewport recorded yet.
NoViewport == [rows |-> 0, columns |-> 0]

InitConnection ==
    /\ sizesRead = <<>>
    /\ toServer = <<>>
    /\ srvBuffer = <<>>
    /\ viewport = NoViewport
    /\ applied = 0

\* A _send_size that puts the columns first.
SizeData_columns_first(rows, cols) == <<cols, rows>>

\* rows, cols = _get_size(...); 'data': [rows, cols]
SizeData(rows, cols) == <<rows, cols>>

\* _send_size on a socket that takes the whole packet.
_send_size(size) ==
    /\ Len(sizesRead) < MaxSends
    /\ sizesRead' = Append(sizesRead, size)
    /\ toServer' =
           toServer \o PacketBytes(SizePacket(SizeData(size[1], size[2])))
    /\ UNCHANGED <<outsideConnection, srvBuffer, viewport, applied>>

\* The connection applies a packet: a size packet gives the viewport, rows
\* first.
apply_packet(view, packet) ==
    IF packet.cmd = "size"
    THEN [rows |-> packet.data[1], columns |-> packet.data[2]]
    ELSE view

\* The server's side of the framing: every piece that ends in a NUL is a
\* packet.
RECURSIVE ServerDrain(_, _, _)
ServerDrain(buffer, view, n) ==
    IF ~HasNul(buffer)
    THEN [buffer |-> buffer, viewport |-> view, applied |-> n]
    ELSE LET pos == IndexOfNul(buffer)
             packet == json_loads(SubSeq(buffer, 1, pos - 1))
         IN ServerDrain(SubSeq(buffer, pos + 1, Len(buffer)),
                        apply_packet(view, packet),
                        IF packet.cmd = "size" THEN n + 1 ELSE n)

\* The server reads the next n bytes of the socket.
ServerReceive(n) ==
    /\ n \in 1..Len(toServer)
    /\ toServer' = SubSeq(toServer, n + 1, Len(toServer))
    /\ LET r == ServerDrain(srvBuffer \o SubSeq(toServer, 1, n), viewport,
                            applied)
       IN /\ srvBuffer' = r.buffer
          /\ viewport' = r.viewport
          /\ applied' = r.applied
    /\ UNCHANGED <<outsideConnection, sizesRead>>

----------------------------------------------------------------------------
(* Commands (commands/commands.py). The decorator cmd fills the two tables *)
(* when the module is imported; call_command_handler looks a command up    *)
(* and runs its wrapper, which parses the parameters with docopt and calls *)
(* the function of the command.                                            *)

\* The @cmd lines of the module, in the order they run.
Registrations ==
    << [name |-> "break-pane", options |-> ""],
       [name |-> "select-pane", options |-> "(-L|-R|-U|-D)"],
       [name |-> "rotate-window", options |-> ""],
       [name |-> "kill-pane", options |-> ""],
       [name |-> "suspend-client", options |-> ""],
       [name |-> "clock-mode", options |-> ""],
       [name |-> "next-layout", options |-> ""],
       [name |-> "previous-layout", options |-> ""],
       [name |-> "new-window", options |-> "[<executable>]"],
       [name |-> "select-layout", options |-> "<layout-type>"],
       [name |-> "rename-window", options |-> "<name>"],
       [name |-> "rename-pane", options |-> "<name>"],
       [name |-> "send-signal", options |-> "<signal>"],
       [name |-> "split-window", options |-> "[-v|-h] [<executable>]"],
       [name |-> "resize-pane",
        options |-> "[(-L <left>)] [(-U <up>)] [(-D <down>)] [(-R <right>)]"] >>

\* A decorator that forgets the help table.
cmd_without_help(tables, name, options) ==
    [COMMANDS_TO_HANDLERS |->
         (name :> [name |-> name, options |-> options])
             @@ tables.COMMANDS_TO_HANDLERS,
     COMMANDS_TO_HELP |-> tables.COMMANDS_TO_HELP]

\* cmd(name, options): the decorator stores command_wrapper, a closure over
\* name and options, under name, and the options under the same name.
cmd(tables, name, options) ==
    [COMMANDS_TO_HANDLERS |->
         (name :> [name |-> name, options |-> options])
             @@ tables.COMMANDS_TO_HANDLERS,
     COMMANDS_TO_HELP |-> (name :> options) @@ tables.COMMANDS_TO_HELP]

\* The two tables after the first n decorators ran; both start empty.
RECURSIVE Imported(_)
Imported(n) ==
    IF n = 0
    THEN [COMMANDS_TO_HANDLERS |-> <<>>, COMMANDS_TO_HELP |-> <<>>]
    ELSE cmd(Imported(n - 1), Registrations[n].name, Registrations[n].options)

COMMANDS_TO_HANDLERS == Imported(Len(Registrations)).COMMANDS_TO_HANDLERS
COMMANDS_TO_HELP == Imported(Len(Registrations)).COMMANDS_TO_HELP

has_command_handler(command) == command \in DOMAIN COMMANDS_TO_HANDLERS

\* The help text, a format and its arguments; <<>> stands for None.
get_documentation_for_command(command) ==
    IF command \in DOMAIN COMMANDS_TO_HELP
    THEN <<"Usage: %s %s", command, COMMANDS_TO_HELP[command]>>
    ELSE <<>>

\* SIGNALS, the names send-signal knows.
SIGNALS ==
    [kill |-> SIGKILL, term |-> SIGTERM, usr1 |-> "SIGUSR1",
     usr2 |-> "SIGUSR2", hup |-> "SIGHUP"]

\* LayoutTypes._ALL of pymux.arrangement.
LayoutTypes_ALL == {"even-horizontal", "even-vertical", "tiled"}

\* What a parameter can be: an option, or a word.
Options == {"-L", "-R", "-U", "-D", "-v", "-h"}
Words == {"3", "x", "y", "kill", "nosuch", "tiled", "bogus"}

\* docopt.docopt('Usage:\n    name options', parameters, help=False) for
\* lists of at most two parameters: TRUE when the parameters match the
\* usage, FALSE when docopt raises SystemExit.
docopt(options, parameters) ==
    LET n == Len(parameters)
        opts == {i \in 1..n : parameters[i] \in Options}
        words == {i \in 1..n : parameters[i] \notin Options}
    IN CASE options = "" -> n = 0
         [] options = "(-L|-R|-U|-D)" ->
                /\ n = 1
                /\ parameters[1] \in {"-L", "-R", "-U", "-D"}
         [] options \in {"<layout-type>", "<name>", "<signal>"} ->
                n = 1 /\ opts = {}
         [] options = "[<executable>]" -> n <= 1 /\ opts = {}
         [] options = "[-v|-h] [<executable>]" ->
                /\ Cardinality(opts) <= 1
                /\ Cardinality(words) <= 1
                /\ \A i \in opts : parameters[i] \in {"-v", "-h"}
         [] OTHER ->
                \/ n = 0
                \/ /\ n = 2
                   /\ Cardinality(opts) = 1
                   /\ \A i \in opts :
                          parameters[i] \in {"-L", "-R", "-U", "-D"}

\* The value docopt gives <left>, <up>, <down> or <right>: the word that
\* comes with the option, None without the option.
Variable(parameters, option) ==
    IF \E i \in DOMAIN parameters : parameters[i] = option
    THEN parameters[CHOOSE i \in DOMAIN parameters :
                        parameters[i] \notin Options]
    ELSE None

\* int(value or 0): the words that are integers, and their values.
IntegerWords == [w \in {"3"} |-> 3]
IsInteger(value) == value = None \/ value \in DOMAIN IntegerWords
int(value) == IF value = None THEN 0 ELSE IntegerWords[value]

InitCommands ==
    lastCall = [tick |-> 0, command |-> None, parameters |-> <<>>,
                handlers |-> <<>>, messages |-> <<>>, calls |-> <<>>,
                exc |-> "none"]

\* pymux.show_message(cli, text).
show_message(call, text) ==
    [call EXCEPT !.messages = Append(@, text)]

\* What the function of a command did: it returned after calling methods of
\* the active window, or it raised.
Returned(calls) == [raised |-> "none", message |-> <<>>, calls |-> calls]
Raised(exception, message) ==
    [raised |-> exception, message |-> message, calls |-> <<>>]

\* A call_command_handler without the except clause.
handler_finished_uncaught(call, result) ==
    lastCall' = [call EXCEPT !.calls = result.calls, !.exc = result.raised]

\* The try statement around handler(pymux, cli, parameters): a
\* CommandException becomes a message; anything else goes on to the caller.
handler_finished(call, result) ==
    lastCall' =
        IF result.raised = "CommandException"
        THEN show_message(call, result.message)
        ELSE [call EXCEPT !.calls = result.calls, !.exc = result.raised]

\* What is not the process, the arrangement or the layout.
outsideCommand == <<clientVars, childVars, connVars, uiVars, mouseLog>>

\* The parameters the focus_* functions take, and the arguments select_pane
\* passes to the one it picked.
focus_parameters == 1
select_pane_arguments == 2

\* select_pane: h is the focus function of the option given, called as
\* h(pymux, cli); Python raises TypeError when the arguments are not what
\* the function takes.
select_pane(call, parameters) ==
    LET h == CASE parameters[1] = "-L" -> "left"
               [] parameters[1] = "-U" -> "up"
               [] parameters[1] = "-D" -> "down"
               [] parameters[1] = "-R" -> "right"
    IN IF select_pane_arguments = focus_parameters
       THEN /\ _move_focus(h)
            /\ handler_finished(call,
                   IF focusExc' = "KeyError"
                   THEN Raised("KeyError", <<>>) ELSE Returned(<<>>))
       ELSE /\ handler_finished(call, Raised("TypeError", <<>>))
            /\ UNCHANGED <<procVars, sizeVars, layoutVars, outsideCommand>>

\* kill-pane: SIGKILL for the process of the active pane.
kill_pane(call) ==
    \E result \in {"none", "OSError"} :
        /\ send_signal(SIGKILL, result)
        /\ handler_finished(call,
               IF result = "none"
               THEN Returned(<<>>) ELSE Raised("OSError", <<>>))

\* select_layout: the layout type must be one of LayoutTypes._ALL.
select_layout(call, parameters) ==
    /\ handler_finished(call,
           IF parameters[1] \in LayoutTypes_ALL
           THEN Returned(<<[method |-> "select_layout",
                            layout_type |-> parameters[1],
                            up |-> 0, right |-> 0, down |-> 0, left |-> 0]>>)
           ELSE Raised("CommandException", <<"Invalid layout type.">>))
    /\ UNCHANGED <<procVars, sizeVars, layoutVars, outsideCommand>>

\* send-signal: the name is looked up in SIGNALS.
send_signal_command(call, parameters) ==
    IF parameters[1] \in DOMAIN SIGNALS
    THEN \E result \in {"none", "OSError"} :
             /\ send_signal(SIGNALS[parameters[1]], result)
             /\ handler_finished(call,
                    IF result = "none"
                    THEN Returned(<<>>) ELSE Raised("OSError", <<>>))
    ELSE /\ handler_finished(call,
                Raised("CommandException", <<"Invalid signal">>))
         /\ UNCHANGED <<procVars, sizeVars, layoutVars, outsideCommand>>

\* resize_pane: the four amounts are converted before anything is done.
resize_pane(call, parameters) ==
    LET left == Variable(parameters, "-L")
        right == Variable(parameters, "-R")
        up == Variable(parameters, "-U")
        down == Variable(parameters, "-D")
    IN /\ handler_finished(call,
              IF \A value \in {left, right, up, down} : IsInteger(value)
              THEN Returned(<<[method |-> "change_size_for_active_pane",
                               layout_type |-> None,
                               up |-> int(up), right |-> int(right),
                               down |-> int(down), left |-> int(left)]>>)
              ELSE Raised("CommandException", <<"Expecting an integer.">>))
       /\ UNCHANGED <<procVars, sizeVars, layoutVars, outsideCommand>>

\* command_wrapper: parse the parameters, then call the function. The
\* functions of select-pane, kill-pane, select-layout, send-signal and
\* resize-pane are modelled; the other commands are only called with
\* parameters that are not their usage.
command_wrapper(handler, call, parameters) ==
    LET invoked == [call EXCEPT !.handlers = Append(@, handler.name)]
    IN IF ~docopt(handler.options, parameters)
       THEN /\ handler_finished(invoked,
                   Raised("CommandException",
                          <<"Usage: %s %s", handler.name, handler.options>>))
            /\ UNCHANGED <<procVars, sizeVars, layoutVars, outsideCommand>>
       ELSE CASE handler.name = "select-pane" ->
                     select_pane(invoked, parameters)
              [] handler.name = "kill-pane" -> kill_pane(invoked)
              [] handler.name = "select-layout" ->
                     select_layout(invoked, parameters)
              [] handler.name = "send-signal" ->
                     send_signal_command(invoked, parameters)
              [] handler.name = "resize-pane" ->
                     resize_pane(invoked, parameters)

\* call_command_handler(command, pymux, cli, parameters), for a cli that
\* shows a window.
call_command_handler(command, parameters) ==
    /\ active_window # NoWindow
    /\ LET call == [tick |-> 1 - lastCall.tick, command |-> command,
                    parameters |-> parameters, handlers |-> <<>>,
                    messages |-> <<>>, calls |-> <<>>, exc |-> "none"]
       IN IF command \notin DOMAIN COMMANDS_TO_HANDLERS
          THEN /\ lastCall' =
                      show_message(call, <<"Invalid command: %s", command>>)
               /\ UNCHANGED <<procVars, sizeVars, layoutVars, outsideCommand>>
          ELSE command_wrapper(COMMANDS_TO_HANDLERS[command], call,
                               parameters)

----------------------------------------------------------------------------
----------------------------------------------------------------------------
(* PaneContainer.has_focus and PaneContainer.mouse_handler                 *)
(* (layout.py:72-124). An escape sequence is the sequence of the pieces    *)
(* its format string puts together: the text of the format up to its first *)
(* field, then the fields, as decimal numbers (%s of an int or of a string *)
(* of digits) or as single characters (six.unichr), and a closing letter.  *)

Lit(text) == [kind |-> text, n |-> 0]
Dec(n) == [kind |-> "decimal", n |-> n]
Chr(n) == [kind |-> "unichr", n |-> n]

\* The mouse events of the model: positions on both sides of the limit of
\* the old mode, in x and in y.
MouseEvents ==
    {[event_type |-> "MOUSE_DOWN", x |-> 95, y |-> 95],
     [event_type |-> "MOUSE_UP", x |-> 96, y |-> 95],
     [event_type |-> "SCROLL_UP", x |-> 95, y |-> 96]}

\* The three flags of process.screen, and the combinations of the model:
\* none, the old mode alone, and modes together.
Flags(sgr, urxvt, legacy) ==
    [sgr_mouse_support_enabled |-> sgr,
     urxvt_mouse_support_enabled |-> urxvt,
     mouse_support_enabled |-> legacy]
MouseModes ==
    {Flags(FALSE, FALSE, FALSE), Flags(FALSE, FALSE, TRUE),
     Flags(FALSE, TRUE, TRUE), Flags(TRUE, TRUE, TRUE)}

BufferNames == {"DEFAULT", "COMMAND"}

InitMouse ==
    /\ current_buffer_name = "DEFAULT"
    /\ mouse_modes = Flags(FALSE, FALSE, FALSE)
    /\ lastMouse = [tick |-> 0, pane |-> 0]

\* The application in the pane asks for mouse reports, or stops asking: the
\* terminal emulator sets the flags of the screen.
SetMouseModes(modes) ==
    /\ modes # mouse_modes
    /\ mouse_modes' = modes
    /\ UNCHANGED <<procVars, clientVars, layoutVars, childVars, sizeVars,
                   cmdVars, connVars, current_buffer_name, mouseLog>>

\* The command prompt gets or loses the focus of the interface.
SetBufferName(name) ==
    /\ name # current_buffer_name
    /\ current_buffer_name' = name
    /\ UNCHANGED <<procVars, clientVars, layoutVars, childVars, sizeVars,
                   cmdVars, connVars, mouse_modes, mouseLog>>

\* arrangement.active_pane
active_pane == windows[active_window].active_pane

\* PaneContainer.has_focus
has_focus(pane) ==
    current_buffer_name # "COMMAND" /\ active_pane = pane

\* The dictionaries of the three modes.
SgrEvent(event_type) ==
    CASE event_type = "MOUSE_DOWN" -> [ev |-> 0, m |-> "M"]
      [] event_type = "MOUSE_UP" -> [ev |-> 0, m |-> "m"]
      [] event_type = "SCROLL_UP" -> [ev |-> 64, m |-> "M"]
      [] event_type = "SCROLL_DOWN" -> [ev |-> 65, m |-> "M"]

UrxvtEvent(event_type) ==
    CASE event_type = "MOUSE_DOWN" -> 32
      [] event_type = "MOUSE_UP" -> 35
      [] event_type = "SCROLL_UP" -> 96
      [] event_type = "SCROLL_DOWN" -> 97

LegacyEvent(event_type) ==
    CASE event_type = "MOUSE_DOWN" -> 32
      [] event_type = "MOUSE_UP" -> 35
      [] event_type = "SCROLL_UP" -> 96
      [] event_type = "SCROLL_DOWN" -> 97

\* The limit of the old mode: x < 96 and y < 96.
LegacyLimit == 96

\* A choice that asks for the urxvt mode first.
mouse_sequences_urxvt_first(modes, event) ==
    LET x == event.x
        y == event.y
    IN IF modes.urxvt_mouse_support_enabled
       THEN << <<Lit("ESC["), Dec(UrxvtEvent(event.event_type)),
                 Dec(x + 1), Dec(y + 1), Lit("M")>> >>
       ELSE IF modes.sgr_mouse_support_enabled
       THEN LET e == SgrEvent(event.event_type)
            IN << <<Lit("ESC[<"), Dec(e.ev), Dec(x + 1), Dec(y + 1),
                    Lit(e.m)>> >>
       ELSE IF modes.mouse_support_enabled
       THEN IF x < LegacyLimit /\ y < LegacyLimit
            THEN << <<Lit("ESC[M"), Chr(LegacyEvent(event.event_type)),
                      Chr(x + 33), Chr(y + 33)>> >>
            ELSE <<>>
       ELSE <<>>

\* The else branch of mouse_handler (layout.py:87-124): the texts it hands
\* to write_input, none or one.
mouse_sequences(modes, event) ==
    LET x == event.x
        y == event.y
    IN IF modes.sgr_mouse_support_enabled
       THEN LET e == SgrEvent(event.event_type)
            IN << <<Lit("ESC[<"), Dec(e.ev), Dec(x + 1), Dec(y + 1),
                    Lit(e.m)>> >>
       ELSE IF modes.urxvt_mouse_support_enabled
       THEN << <<Lit("ESC["), Dec(UrxvtEvent(event.event_type)),
                 Dec(x + 1), Dec(y + 1), Lit("M")>> >>
       ELSE IF modes.mouse_support_enabled
       THEN IF x < LegacyLimit /\ y < LegacyLimit
            THEN << <<Lit("ESC[M"), Chr(LegacyEvent(event.event_type)),
                      Chr(x + 33), Chr(y + 33)>> >>
            ELSE <<>>
       ELSE <<>>

\* The pieces of the longest escape sequence.
MaxEscape == 5

\* mouse_handler of the PaneContainer of `pane`. The renderer calls the
\* handlers of the panes it has drawn: the panes of the active window, and
\* only the active pane when the window is zoomed. The process of the pane
\* has been started. write_input is called with paste=False, which leaves
\* screen.bracketed_paste_enabled unread.
mouse_handler(pane, event, eintr, accepted) ==
    /\ active_window # NoWindow
    /\ pane \in PanesIn(active_window)
    /\ active_window \in zoom => pane = active_pane
    /\ pid # None
    /\ lastMouse' = [tick |-> 1 - lastMouse.tick, pane |-> pane]
    /\ IF ~has_focus(pane)
       THEN \* arrangement.active_window.active_pane = self.pane
            /\ windows' = [windows EXCEPT ![active_window].active_pane = pane]
            /\ UNCHANGED <<procVars, clientVars, childVars, sizeVars, cmdVars,
                           connVars, uiVars, active_window, nextPane,
                           pane_write_positions, body_write_position,
                           focusExc, focusDir, zoom>>
       ELSE LET texts == mouse_sequences(mouse_modes, event)
            IN IF texts = <<>>
               THEN UNCHANGED <<procVars, clientVars, layoutVars, childVars,
                                   sizeVars, cmdVars, connVars, uiVars>>
               ELSE write_input(texts[1], FALSE, FALSE, eintr, accepted)

Init ==
    /\ InitProcess
    /\ InitClient
    /\ InitLayout
    /\ InitChild
    /\ InitCommands
    /\ InitConnection
    /\ InitMouse

\* The process, its child, the event loop and the executor.
Lifecycle ==
    \/ Start
    \/ ChildWrite
    \/ ChildExit
    \/ wait_for_finished
    \/ done
    \/ read
    \/ connect_with_delay
    \/ ConnectReaderCallback
    \/ SetSlowMotion

WriteInputCall ==
    \E data \in Payloads, paste \in BOOLEAN, enabled \in BOOLEAN,
       eintr \in 0..MaxEintr, accepted \in 0..MaxPayload :
        write_input(data, paste, enabled, eintr, accepted)
            /\ UNCHANGED mouseLog

SendSignalCall ==
    \E sig \in Signals, result \in {"none", "OSError"} :
        send_signal(sig, result) /\ UNCHANGED cmdVars

\* A Process whose owner writes input to it.
Next == Lifecycle \/ WriteInputCall

Spec == Init /\ [][Next]_vars

\* A Process whose owner sends signals to it.
NextSignal == Lifecycle \/ SendSignalCall

SpecSignal == Init /\ [][NextSignal]_vars

\* The same Process under fair scheduling. The executor gives
\* wait_for_finished a thread of its own (run_in_executor, process.py:124),
\* so that os.waitpid returns once the child is a zombie; the event loop
\* runs the callbacks handed to call_from_executor in the order in which
\* they were queued, each of them eventually. Nothing is assumed about the
\* child, the reads of the pty, the delays of slow motion or the owner.
SpecTeardown ==
    /\ Init
    /\ [][NextSignal]_vars
    /\ WF_vars(wait_for_finished)
    /\ WF_vars(done)
    /\ WF_vars(ConnectReaderCallback)

\* PaneWindow.create_screen calls set_size with the size of the pane: the
\* columns and rows of Sizes.
SetSizeCall ==
    \E size \in Sizes : set_size(size[2], size[1])

NextResize == Lifecycle \/ SetSizeCall

SpecResize == Init /\ [][NextResize]_vars

\* A client attached to a server, while the process of a pane runs there.
PaneProcess ==
    \/ Start

NextClient ==
    \/ \E packet \in ServerPackets : ServerSend(packet)
    \/ \E lost \in 0..(PacketLen - 1) : ServerClose(lost)
    \/ UserTypes
    \/ \E size \in Sizes, detach_other_clients \in BOOLEAN :
           \E a1 \in SendResults, a2 \in SendResults :
               attach(size, detach_other_clients, a1, a2)
    \/ \E n \in 0..(MaxPackets * PacketLen) : attach_socket(n)
    \/ \E accepted \in SendResults : attach_stdin(accepted)
    \/ PaneProcess

SpecClient == Init /\ [][NextClient]_vars

\* The rounds of the loop in attach (client.py:58-82): select, then the
\* socket if it is readable, else stdin.
SocketRound == \E n \in 0..(MaxPackets * PacketLen) : attach_socket(n)
StdinRound == \E accepted \in SendResults : attach_stdin(accepted)
LoopRound == SocketRound \/ StdinRound

\* An attached client whose loop keeps running, against a server that may
\* send without end.
NextAttached ==
    \/ \E packet \in ServerPackets : ServerSend(packet)
    \/ ServerSendsOn
    \/ \E lost \in 0..(PacketLen - 1) : ServerClose(lost)
    \/ UserTypes
    \/ \E size \in Sizes, detach_other_clients \in BOOLEAN :
           \E a1 \in SendResults, a2 \in SendResults :
               attach(size, detach_other_clients, a1, a2)
    \/ SocketRound
    \/ StdinRound

\* The client is a process of its own: whenever select has something to
\* report, the loop runs a round. Nothing is assumed about the server or
\* the user.
SpecAttached ==
    /\ Init
    /\ [][NextAttached]_vars
    /\ WF_vars(LoopRound)

\* Everything that writes: the client to its socket, the pane to its pty.
NextWrites ==
    \/ UserTypes
    \/ \E size \in Sizes, detach_other_clients \in BOOLEAN :
           \E a1 \in SendResults, a2 \in SendResults :
               attach(size, detach_other_clients, a1, a2)
    \/ \E accepted \in SendResults : attach_stdin(accepted)
    \/ \E size \in Sizes, accepted \in SendResults : sigwinch(size, accepted)
    \/ Start
    \/ WriteInputCall

SpecWrites == Init /\ [][NextWrites]_vars

\* Windows that are split and zoomed, render passes and focus movement.
NextZoom ==
    \/ \E w \in WindowIds : create_window(w)
    \/ \E vertical \in BOOLEAN : add_pane(vertical)
    \/ \E w \in WindowIds : select_window(w)
    \/ toggle_zoom
    \/ \E write_position \in BodyBoxes : write_to_screen(write_position)
    \/ focus_left
    \/ focus_right
    \/ focus_down
    \/ focus_up

SpecZoom == Init /\ [][NextZoom]_vars

\* Everything the client sends: commands, the handshake of attach, input
\* and sizes.
NextSends ==
    \/ UserTypes
    \/ \E command \in CommandTexts, accepted \in SendResults :
           run_command(command, accepted)
    \/ \E size \in Sizes, detach_other_clients \in BOOLEAN :
           \E a1 \in SendResults, a2 \in SendResults :
               attach(size, detach_other_clients, a1, a2)
    \/ \E accepted \in SendResults : attach_stdin(accepted)
    \/ \E size \in Sizes, accepted \in SendResults : sigwinch(size, accepted)

SpecSends == Init /\ [][NextSends]_vars

\* Size packets from the client's terminal to the server's connection.
NextSize ==
    \/ \E size \in Sizes : _send_size(size)
    \/ \E n \in 1..(MaxSends * PacketLen) : ServerReceive(n)

SpecSize == Init /\ [][NextSize]_vars

\* The arrangement changing under the LayoutManager, with render passes and
\* focus movements in any order.
NextLayout ==
    \/ \E w \in WindowIds : create_window(w)
    \/ \E vertical \in BOOLEAN : add_pane(vertical)
    \/ \E w \in WindowIds, pane \in 1..MaxPanes : remove_pane(w, pane)
    \/ \E w \in WindowIds : break_pane(w)
    \/ \E w \in WindowIds : select_window(w)
    \/ \E write_position \in BodyBoxes : write_to_screen(write_position)
    \/ focus_left
    \/ focus_right
    \/ focus_down
    \/ focus_up

SpecLayout == Init /\ [][NextLayout]_vars

\* Windows whose panes come and go, render passes and focus movement.
NextFocus ==
    \/ \E w \in WindowIds : create_window(w)
    \/ \E vertical \in BOOLEAN : add_pane(vertical)
    \/ \E w \in WindowIds, pane \in 1..MaxPanes : remove_pane(w, pane)
    \/ \E w \in WindowIds : select_window(w)
    \/ \E write_position \in BodyBoxes : write_to_screen(write_position)
    \/ focus_left
    \/ focus_right
    \/ focus_down
    \/ focus_up

SpecFocus == Init /\ [][NextFocus]_vars

\* The calls of call_command_handler: every command of the table and a name
\* that is no command, with two words for parameters, which is the usage of
\* none of them; and the commands whose function is modelled, with
\* parameters that are their usage.
Invocations ==
    {<<command, <<"x", "y">>>> :
        command \in DOMAIN COMMANDS_TO_HANDLERS \union {"no-such-command"}}
    \union
    {<<"select-pane", <<"-R">>>>, <<"select-pane", <<"-L">>>>,
     <<"kill-pane", <<>>>>,
     <<"select-layout", <<"tiled">>>>, <<"select-layout", <<"bogus">>>>,
     <<"send-signal", <<"term">>>>, <<"send-signal", <<"nosuch">>>>,
     <<"resize-pane", <<"-L", "3">>>>, <<"resize-pane", <<"-L", "x">>>>}

\* A server with windows and panes, the process of the active pane, render
\* passes, and a client that gives commands.
NextCommands ==
    \/ \E w \in WindowIds : create_window(w)
    \/ \E vertical \in BOOLEAN : add_pane(vertical)
    \/ \E write_position \in BodyBoxes : write_to_screen(write_position)
    \/ Start
    \/ \E invocation \in Invocations :
           call_command_handler(invocation[1], invocation[2])

SpecCommands == Init /\ [][NextCommands]_vars

\* A Client that is handed packets one by one.
NextModes ==
    \/ \E packet \in ServerPackets : ProcessPacket(packet)

SpecModes == Init /\ [][NextModes]_vars

\* The paths of up to MaxPath directories; split(':') gives at least one.
Paths == UNION {[1..n -> PathEntries] : n \in 1..MaxPath}

\* A child forked in any environment, while its Process is started.
NextChild ==
    \/ \E path \in Paths, before \in {"None", "returns", "raises"} :
           fork(path, before)
    \/ _in_child
    \/ execv
    \/ execv_returns
    \/ Start

SpecChild == Init /\ [][NextChild]_vars

----------------------------------------------------------------------------
(* The claims about the Process.                                           *)

\* C1: no os.write is issued on the master fd after done() closed it: a
\* write_input call that finds the fd closed, or self.master None, calls
\* os.write not once and hands nothing to the kernel.
C1_NoWriteAfterClose ==
    \A i \in DOMAIN writeCalls :
        (~writeCalls[i].fdOpen \/ writeCalls[i].master = None)
            => /\ writeCalls[i].oswrites = 0
               /\ writeCalls[i].written = <<>>
               /\ writeCalls[i].accepted = 0

\* A write_input call was made after done() had closed the master.
C1_Witness ==
    \E i \in DOMAIN writeCalls :
        /\ ~writeCalls[i].fdOpen
        /\ writeCalls[i].master = None
        /\ is_terminated

\* C2: once a read on the master returned end-of-stream, no further read is
\* performed on it, whatever slow_motion is.
C2_NoReadAfterEof == ~readAfterEof

\* C8: send_signal calls os.kill exactly when the process has a pid and its
\* is_terminated flag is clear; a call on a process that was never started or
\* whose termination was handled calls nothing and raises nothing.
C8_SignalOnlyWhileAlive ==
    \A i \in DOMAIN signalCalls :
        /\ signalCalls[i].killed
              <=> (signalCalls[i].pid # None /\ ~signalCalls[i].is_terminated)
        /\ ~signalCalls[i].killed => signalCalls[i].exc = "none"

\* send_signal was called on a process whose termination was handled.
C8_Witness ==
    \E i \in DOMAIN signalCalls :
        /\ signalCalls[i].is_terminated
        /\ signalCalls[i].pid # None
        /\ ~signalCalls[i].killed

\* A step of an executor thread: os.waitpid returned in wait_for_finished, or
\* the sleep ended in connect_with_delay.
ExecutorStep ==
    \/ waitTask = "running" /\ waitTask' = "finished"
    \/ delayTasks' < delayTasks

\* C9: a step of an executor thread changes no Process field, no reader
\* registration, nothing of the stream and calls no callback: all it does is
\* queue one completion for the event loop.
C9_ExecutorMutatesNothing ==
    [][ExecutorStep =>
          /\ UNCHANGED <<procFields, fdOpen, reader, readObs, writeCalls,
                         signalCalls, done_calls>>
          /\ Len(callQueue') = Len(callQueue) + 1]_vars

\* wait_for_finished has run and its completion waits for the event loop,
\* the Process still untouched.
C9_Witness ==
    /\ waitTask = "finished"
    /\ callQueue # <<>>
    /\ callQueue[Len(callQueue)] = "done"
    /\ master # None
    /\ ~is_terminated

\* C10: the bytes fed to the stream, followed by the bytes still unread on
\* the master, are the bytes the child produced, in order; and invalidate was
\* called once per non-empty feed.
C10_FedInOrder ==
    /\ fed \o ptyOut = produced
    /\ IsPrefix(fed, produced)
    /\ invalidates = feeds

\* Two bytes went through two slow-motion reads.
C10_Witness ==
    /\ Len(fed) = MaxOut
    /\ feeds = MaxOut
    /\ slow_motion
    /\ delayTasks = 1
----------------------------------------------------------------------------
(* Packet framing on the receiving side.                                   *)

\* What the client has read from the socket so far.
Received == SubSeq(srvSent, 1, nRecv)

NulPositions(stream) == {i \in 1..Len(stream) : stream[i] = NUL}
\* Position of the k-th NUL of the stream; 0 for k = 0.
NthNul(stream, k) ==
    IF k = 0 THEN 0
    ELSE CHOOSE i \in NulPositions(stream) :
             Cardinality({j \in NulPositions(stream) : j < i}) = k - 1
\* The complete packets of a stream: the bytes between consecutive NULs.
CompletePackets(stream) ==
    [k \in 1..Cardinality(NulPositions(stream)) |->
        SubSeq(stream, NthNul(stream, k - 1) + 1, NthNul(stream, k) - 1)]
\* The bytes after the last NUL.
Unterminated(stream) ==
    SubSeq(stream, NthNul(stream, Cardinality(NulPositions(stream))) + 1,
           Len(stream))

\* C3: however the stream of NUL-terminated packets is cut into socket reads,
\* _process has been called exactly once for each complete packet received,
\* in stream order, with exactly the bytes between the delimiters, and the
\* bytes after the last NUL are what data_buffer holds.
C3_FramedByNul ==
    /\ processed = CompletePackets(Received)
    /\ data_buffer = Unterminated(Received)

\* One packet was processed and the first part of the next one is buffered,
\* with more of the stream still to be read.
C3_Witness ==
    /\ Len(processed) = 1
    /\ data_buffer # <<>>
    /\ nRecv < Len(srvSent)

\* The step in which the attach loop sees the zero-length read.
DetachStep == clientPc = "attached" /\ clientPc' = "returned"

\* C5: the detach step of a client leaves the Process of a pane alone: pid,
\* master and is_terminated keep their values, no fd is closed, no signal is
\* sent, no pty write happens, and no packet is sent to the server.
C5_DetachLeavesProcess ==
    [][DetachStep => UNCHANGED <<procVars, sendCalls>>]_vars

\* The client has detached and the process of the pane is still running.
C5_Witness ==
    /\ clientPc = "returned"
    /\ eofRecv
    /\ pid # None
    /\ master # None
    /\ ~is_terminated
    /\ child = "running"

\* C6: the zero-length read makes attach return normally, whatever is left in
\* data_buffer or on stdin, and once it has returned no packet is processed
\* and nothing is sent.
C6_CleanDetach ==
    [][/\ (~eofRecv /\ eofRecv') => clientPc' = "returned"
       /\ clientPc = "returned" =>
              UNCHANGED <<clientPc, processed, data_buffer,
                          mode_context_managers, sendCalls>>]_vars

\* attach has returned with half a packet buffered and a key typed but not
\* forwarded.
C6_Witness ==
    /\ clientPc = "returned"
    /\ data_buffer # <<>>
    /\ stdin # <<>>

\* C7: no write loses data: every socket.send took all the bytes it was
\* given, and the pty got every byte submitted to write_input. (The code
\* keeps no buffer of unwritten bytes, so what a call did not write, nothing
\* writes later.)
C7_NoDataLost ==
    /\ ~sendShort
    /\ PtyIn(writeCalls) = Submitted(writeCalls)

\* C4: no focus_* call raises, and the active pane of the active window is
\* always one of the panes of that window, whatever render passes, window
\* switches, break-pane and pane removals came before the call.
C4_FocusTotalAndWindowSafe ==
    /\ focusExc # "KeyError"
    /\ active_window # NoWindow =>
           windows[active_window].active_pane \in PanesIn(active_window)

\* C11: a child that has exited without os.execv having started the target
\* program has a non-zero exit status.
C11_FailedSpawnExitsNonZero ==
    childPc = "exited" => exitStatus # 0

----------------------------------------------------------------------------
(* The stack of terminal modes.                                            *)

\* The packets processed so far, parsed.
ProcessedPackets == [i \in DOMAIN processed |-> json_loads(processed[i])]

IsPush(packet) == packet.cmd = "mode" /\ packet.data \in {"raw", "cooked"}
IsRestore(packet) == packet.cmd = "mode" /\ packet.data = "restore"
Pushes(packets, a, b) == Cardinality({k \in a..b : IsPush(packets[k])})
Restores(packets, a, b) == Cardinality({k \in a..b : IsRestore(packets[k])})

\* The push at position i has not been restored: after it, there were never
\* more restores than later pushes.
Unrestored(packets, i) ==
    /\ IsPush(packets[i])
    /\ \A j \in (i + 1)..Len(packets) :
           Restores(packets, i + 1, j) <= Pushes(packets, i + 1, j)

\* The modes of the unrestored pushes, oldest first.
UnrestoredModes(packets) ==
    LET F[i \in 0..Len(packets)] ==
            IF i = 0 THEN <<>>
            ELSE IF Unrestored(packets, i) THEN Append(F[i - 1], packets[i].data)
                 ELSE F[i - 1]
    IN F[Len(packets)]

\* C12: after any sequence of packets the mode stack holds, oldest first,
\* exactly the raw and cooked pushes that no later 'restore' has popped,
\* where each 'restore' pops the most recent push still on the stack and a
\* 'restore' on an empty stack does nothing.
C12_ModeStackIsLifo ==
    mode_context_managers = UnrestoredModes(ProcessedPackets)

\* raw, then cooked, then restore: cooked was popped and raw is left.
C12_Witness ==
    /\ Len(processed) = 3
    /\ IsPush(ProcessedPackets[1]) /\ ProcessedPackets[1].data = "raw"
    /\ IsPush(ProcessedPackets[2]) /\ ProcessedPackets[2].data = "cooked"
    /\ IsRestore(ProcessedPackets[3])
    /\ mode_context_managers = <<"raw">>

\* C13: once attach has returned on the close of the connection, the mode
\* stack is empty: every context a 'mode' packet pushed has been exited.
C13_DetachReleasesModes ==
    clientPc = "returned" => mode_context_managers = <<>>

----------------------------------------------------------------------------
(* Process.write_input: what is written, and how the loop ends.            *)

\* C14: a write_input call that writes hands os.write the paste markers
\* around data when paste is True and bracketed paste is enabled, and hands
\* it exactly data in every other case.
C14_PasteWrapping ==
    \A i \in DOMAIN writeCalls :
        writeCalls[i].master # None =>
            writeCalls[i].written =
                IF writeCalls[i].paste /\ writeCalls[i].enabled
                THEN <<PasteStart>> \o writeCalls[i].data \o <<PasteEnd>>
                ELSE writeCalls[i].data

\* A paste was written while bracketed paste was enabled: markers around it.
C14_Witness ==
    \E i \in DOMAIN writeCalls :
        /\ writeCalls[i].master # None
        /\ writeCalls[i].paste
        /\ writeCalls[i].enabled
        /\ Len(writeCalls[i].written) = Len(writeCalls[i].data) + 2

\* C15: no write_input call raises; a call that writes calls os.write once
\* for every interruption and once more, so the payload is submitted by
\* exactly one os.write that was not interrupted; an OSError other than
\* errno 4 (accepted = 0) ends the call as well.
C15_WriteInputNeverRaises ==
    \A i \in DOMAIN writeCalls :
        /\ writeCalls[i].exc = "none"
        /\ writeCalls[i].master # None =>
               writeCalls[i].oswrites = writeCalls[i].eintr + 1
        /\ writeCalls[i].master = None => writeCalls[i].oswrites = 0

\* A call was interrupted MaxEintr times and then ended on another OSError.
C15_Witness ==
    \E i \in DOMAIN writeCalls :
        /\ writeCalls[i].eintr = MaxEintr
        /\ writeCalls[i].oswrites = MaxEintr + 1
        /\ writeCalls[i].accepted = 0
        /\ writeCalls[i].master # None

----------------------------------------------------------------------------
(* Process.set_size in every state of the Process.                         *)

\* The set_size call of this step, when the step is one.
LastSizeCall == sizeCalls'[Len(sizeCalls')]

\* C16: a set_size(width, height) call, before start, while running or after
\* termination, raises nothing, sets the kernel's window size to (height,
\* width) exactly when master is not None, which is only while the fd is
\* open, leaves it alone otherwise, and ends with screen.lines = height and
\* screen.columns = width.
C16_SetSizeAlwaysSafe ==
    [][sizeCalls' # sizeCalls =>
          /\ LastSizeCall.exc = "none"
          /\ LastSizeCall.ioctl <=> LastSizeCall.master # None
          /\ LastSizeCall.ioctl => LastSizeCall.fdOpen
          /\ winsize' = IF LastSizeCall.ioctl
                        THEN <<LastSizeCall.height, LastSizeCall.width>>
                        ELSE winsize
          /\ screen' = [lines |-> LastSizeCall.height,
                        columns |-> LastSizeCall.width]]_vars

\* set_size was called after done() had closed the master: the screen has the
\* new size and the kernel still holds the size of start().
C16_Witness ==
    /\ is_terminated
    /\ sizeCalls # <<>>
    /\ sizeCalls[1].master = None
    /\ screen.lines = sizeCalls[1].height
    /\ screen.columns = sizeCalls[1].width
    /\ screen.columns # sx
    /\ winsize = <<sy, sx>>

\* The recorded geometry is fresh: it is what a render pass of the active
\* window as it is now records, and the active pane is one of the panes
\* drawn.
FreshlyRendered ==
    /\ active_window # NoWindow
    /\ windows[active_window].active_pane \in PanesIn(active_window)
    /\ body_write_position # <<>>
    /\ DOMAIN pane_write_positions = PanesIn(active_window)
    /\ \A i \in DOMAIN windows[active_window].panes :
           pane_write_positions[windows[active_window].panes[i]] =
               PaneBox(windows[active_window], body_write_position[1], i)

\* A step of one of the focus_* functions: it records its direction and
\* touches nothing but the active pane of a window.
FocusStep ==
    /\ focusDir' \in Directions
    /\ <<windows, focusExc, focusDir>>' # <<windows, focusExc, focusDir>>
    /\ UNCHANGED <<active_window, nextPane, pane_write_positions,
                   body_write_position>>
    /\ DOMAIN windows' = DOMAIN windows
    /\ \A w \in DOMAIN windows :
           /\ windows'[w].panes = windows[w].panes
           /\ windows'[w].vertical = windows[w].vertical

\* The probe point the four directions are documented to use.
ProbeX(direction, box) ==
    CASE direction = "left" -> box.xpos - 2
      [] direction = "right" -> box.xpos + box.width + 1
      [] direction = "down" -> box.xpos
      [] direction = "up" -> box.xpos
ProbeY(direction, box) ==
    CASE direction = "left" -> box.ypos
      [] direction = "right" -> box.ypos
      [] direction = "down" -> box.ypos + box.height + 1
      [] direction = "up" -> box.ypos - 1
Holds(box, x, y) ==
    /\ box.xpos <= x /\ x < box.xpos + box.width
    /\ box.ypos <= y /\ y < box.ypos + box.height

\* C17: a focus_* call on freshly rendered geometry probes (xpos-2, ypos)
\* for left, (xpos+width+1, ypos) for right, (xpos, ypos+height+1) for down
\* and (xpos, ypos-1) for up, taken from the box of the active pane; the
\* pane it activates is one whose recorded box holds that point, and when
\* no recorded box holds it the active pane stays the same.
C17_FocusFollowsProbe ==
    [][(FocusStep /\ FreshlyRendered) =>
          LET before == windows[active_window].active_pane
              after == windows'[active_window].active_pane
              box == pane_write_positions[before]
              x == ProbeX(focusDir', box)
              y == ProbeY(focusDir', box)
          IN /\ focusExc' = "none"
             /\ \A w \in DOMAIN windows \ {active_window} :
                    windows'[w] = windows[w]
             /\ IF \E pane \in DOMAIN pane_write_positions :
                       Holds(pane_write_positions[pane], x, y)
                THEN Holds(pane_write_positions[after], x, y)
                ELSE after = before]_vars

\* The first of two panes side by side can only have become the active one
\* by focus_left from the second, over geometry that had both panes.
C17_Witness ==
    /\ active_window # NoWindow
    /\ nextPane = 2
    /\ windows[active_window].vertical
    /\ Len(windows[active_window].panes) = 2
    /\ windows[active_window].active_pane = windows[active_window].panes[1]
    /\ focusDir = "left"
    /\ focusExc = "none"
    /\ FreshlyRendered

\* A step of call_command_handler.
CommandStep == lastCall'.tick # lastCall.tick

\* C18: in a rendered window of two panes side by side, select-pane -R
\* given while the left pane is active makes the right pane the active
\* pane, and select-pane -L given while the right pane is active makes the
\* left pane the active pane.
C18_SelectPaneMovesFocus ==
    [][(/\ CommandStep
        /\ lastCall'.command = "select-pane"
        /\ FreshlyRendered
        /\ windows[active_window].vertical
        /\ Len(windows[active_window].panes) = 2) =>
          LET win == windows[active_window]
              after == windows'[active_window].active_pane
          IN /\ (/\ lastCall'.parameters = <<"-R">>
                 /\ win.active_pane = win.panes[1]) => after = win.panes[2]
             /\ (/\ lastCall'.parameters = <<"-L">>
                 /\ win.active_pane = win.panes[2]) => after = win.panes[1]
      ]_vars

\* The misuses of a command: parameters that are not its usage, a layout
\* type that is none, a signal name that is none, an amount that is no
\* integer; and the text each is answered with.
NotUsage(command, parameters) ==
    /\ command \in DOMAIN COMMANDS_TO_HELP
    /\ ~docopt(COMMANDS_TO_HELP[command], parameters)
BadLayout(command, parameters) ==
    /\ command = "select-layout"
    /\ Len(parameters) = 1
    /\ parameters[1] \in Words \ LayoutTypes_ALL
BadSignal(command, parameters) ==
    /\ command = "send-signal"
    /\ Len(parameters) = 1
    /\ parameters[1] \in Words \ DOMAIN SIGNALS
BadAmount(command, parameters) ==
    /\ command = "resize-pane"
    /\ Len(parameters) = 2
    /\ parameters[1] \in {"-L", "-R", "-U", "-D"}
    /\ parameters[2] \in Words \ {"3"}
Misuse(command, parameters) ==
    \/ NotUsage(command, parameters)
    \/ BadLayout(command, parameters)
    \/ BadSignal(command, parameters)
    \/ BadAmount(command, parameters)
ErrorText(command, parameters) ==
    IF NotUsage(command, parameters)
    THEN <<"Usage: %s %s", command, COMMANDS_TO_HELP[command]>>
    ELSE IF BadLayout(command, parameters) THEN <<"Invalid layout type.">>
    ELSE IF BadSignal(command, parameters) THEN <<"Invalid signal">>
    ELSE <<"Expecting an integer.">>

\* C19: a command that fails with a CommandException (select-layout with
\* a name that is no layout type, resize-pane with an amount that is no
\* integer, send-signal with a name that is not in SIGNALS, parameters that
\* are not the usage) gives exactly one show_message call, with the error
\* text; nothing is raised out of call_command_handler; the arrangement,
\* the windows and the process stay as they were and no signal is sent.
C19_CommandExceptionIsAMessage ==
    [][(/\ CommandStep
        /\ Misuse(lastCall'.command, lastCall'.parameters)) =>
          /\ lastCall'.messages =
                 <<ErrorText(lastCall'.command, lastCall'.parameters)>>
          /\ lastCall'.exc = "none"
          /\ lastCall'.calls = <<>>
          /\ UNCHANGED <<procVars, sizeVars, layoutVars>>]_vars

\* send-signal with a name that is no signal, given while the process of
\* the pane runs, ended in the one message and without a signal.
C19_Witness ==
    /\ lastCall.command = "send-signal"
    /\ lastCall.parameters = <<"nosuch">>
    /\ lastCall.messages = <<<<"Invalid signal">>>>
    /\ pid # None
    /\ child = "running"
    /\ signalCalls = <<>>

\* C20: for every name, has_command_handler(name) is true exactly when
\* get_documentation_for_command(name) is not None; call_command_handler
\* invokes the handler of the name exactly once when the name has one, and
\* otherwise invokes no handler and shows 'Invalid command: <name>'.
C20_TableConsistentAndTotal ==
    /\ \A invocation \in Invocations :
           has_command_handler(invocation[1]) <=>
               get_documentation_for_command(invocation[1]) # <<>>
    /\ lastCall.command # None =>
           IF has_command_handler(lastCall.command)
           THEN lastCall.handlers = <<lastCall.command>>
           ELSE /\ lastCall.handlers = <<>>
                /\ lastCall.messages =
                       <<<<"Invalid command: %s", lastCall.command>>>>

\* kill-pane was looked up, its handler ran once and sent the signal; and
\* the name that is no command is one of the names asked about.
C20_Witness ==
    /\ lastCall.command = "kill-pane"
    /\ lastCall.handlers = <<"kill-pane">>
    /\ lastCall.messages = <<>>
    /\ signalCalls # <<>>
    /\ signalCalls[1].killed
    /\ ~has_command_handler("no-such-command")
    /\ get_documentation_for_command("no-such-command") = <<>>

\* The kinds of packet a client sends.
ClientCmds == {"run-command", "start-gui", "in", "size"}

\* The packets sent so far are well formed and in the order of attach: a
\* start-gui comes right after a size, and what follows a start-gui is
\* input or a further size.
WellOrdered(sent) ==
    \A i \in DOMAIN sent :
        /\ sent[i].cmd \in ClientCmds
        /\ DOMAIN sent[i] = {"cmd", "data"}
        /\ IsJson(json_dumps(sent[i]))
        /\ sent[i].cmd = "size" => sent[i].data \in Sizes
        /\ sent[i].cmd = "start-gui" =>
               i > 1 /\ sent[i - 1].cmd = "size"
        /\ (\E j \in 1..(i - 1) : sent[j].cmd = "start-gui") =>
               sent[i].cmd \in {"in", "size"}
        /\ sent[i].cmd = "in" =>
               \E j \in 1..(i - 1) : sent[j].cmd = "start-gui"

\* C21: every packet the client sends has a cmd of run-command, start-gui,
\* in or size and a data field; attach sends a size packet and right after
\* it the start-gui packet, what follows is input and further size packets;
\* and the packets go onto the socket in the order the client issued them:
\* a send never reorders or removes what was sent before.
C21_PacketsInOrder ==
    [][IsPrefix(sendCalls, sendCalls') /\ WellOrdered(sendCalls')]_vars

\* An attached client whose window changed its size: size, start-gui and a
\* further size packet.
C21_Witness ==
    /\ clientPc = "attached"
    /\ Len(sendCalls) = 3
    /\ sendCalls[1].cmd = "size"
    /\ sendCalls[2].cmd = "start-gui"
    /\ sendCalls[3].cmd = "size"
    /\ sendCalls[3].data # sendCalls[1].data

\* C22: a size packet made by _send_size from the rows and columns of the
\* terminal, framed by _send_packet, cut off at the NUL by the server,
\* parsed and applied, leaves the connection with exactly those rows and
\* columns: [40, 120] gives 40 rows and 120 columns.
C22_SizeRoundTrip ==
    applied > 0 =>
        /\ applied <= Len(sizesRead)
        /\ viewport.rows = sizesRead[applied][1]
        /\ viewport.columns = sizesRead[applied][2]

\* The terminal had 40 rows and 120 columns, and that is what the
\* connection recorded from the packet, read in two pieces.
C22_Witness ==
    /\ applied = 1
    /\ sizesRead = <<<<40, 120>>>>
    /\ viewport = [rows |-> 40, columns |-> 120]
    /\ toServer = <<>>
    /\ srvBuffer = <<>>

\* A step that writes the render information.
RenderStep ==
    <<pane_write_positions, body_write_position>>' #
        <<pane_write_positions, body_write_position>>

C24_RenderInformationIsOfLastPass ==
    [][RenderStep =>
          /\ UNCHANGED <<arrangementVars, focusExc, focusDir, zoom>>
          /\ body_write_position' \in {<<box>> : box \in BodyBoxes}
          /\ DOMAIN pane_write_positions' =
                 {update.panes[i] : i \in DOMAIN update.panes}
          /\ \A pane \in DOMAIN pane_write_positions' :
                 LET box == pane_write_positions'[pane]
                     body == body_write_position'[1]
                 IN /\ box = PaneBox(update, body,
                                CHOOSE i \in DOMAIN update.panes :
                                    update.panes[i] = pane)
                    /\ body.xpos <= box.xpos
                    /\ box.xpos + box.width <= body.xpos + body.width
                    /\ body.ypos <= box.ypos
                    /\ box.ypos + box.height <= body.ypos + body.height]_vars

\* A pass after a pane was removed: positions were recorded for three
\* panes, now there are two, and focus was moved over them.
C24_Witness ==
    /\ active_window # NoWindow
    /\ nextPane = 3
    /\ Len(windows[active_window].panes) = 2
    /\ DOMAIN pane_write_positions = PanesIn(active_window)
    /\ body_write_position # <<>>
    /\ focusExc = "none"
    /\ windows[active_window].active_pane # 3

\* C25: done_callback is called at most once, and only after done() closed
\* the master fd, removed the reader, set master to None and is_terminated
\* to True; is_terminated is set exactly when the callback was called, only
\* for a process that was started; and from then on master stays None,
\* is_terminated stays True and no further callback follows.
C25_TerminationHandledOnce ==
    /\ [](/\ Len(done_calls) <= 1
          /\ \A i \in DOMAIN done_calls :
                 done_calls[i] = Found(FALSE, FALSE, None, TRUE)
          /\ is_terminated <=> done_calls # <<>>
          /\ is_terminated => pid # None /\ master = None /\ ~fdOpen)
    /\ [][is_terminated =>
             /\ is_terminated'
             /\ master' = None
             /\ done_calls' = done_calls]_vars

\* The termination of a started process was handled, and things went on:
\* a write_input call came after it.
C25_Witness ==
    /\ is_terminated
    /\ Len(done_calls) = 1
    /\ pid # None
    /\ \E i \in DOMAIN writeCalls : writeCalls[i].master = None

\* C26: once the child of a started process has exited, by itself or after
\* SIGKILL was sent to it, the process eventually has is_terminated = True,
\* its master closed and set to None, and done_callback called.
C26_TeardownCompletes ==
    (pid # None /\ child = "exited")
        ~> (is_terminated /\ ~fdOpen /\ master = None /\ done_calls # <<>>)

\* Teardown completed for a child that was running when a signal was sent
\* to it and that was read from in slow motion after its end.
C26_Witness ==
    /\ is_terminated
    /\ ~fdOpen
    /\ done_calls # <<>>
    /\ \E i \in DOMAIN signalCalls :
           signalCalls[i].killed /\ signalCalls[i].child = "running"
    /\ slow_motion
    /\ eofSeen

\* C27: a read callback is registered on the event loop only while master
\* is not None, the pty is open and done() has not run; and once master is
\* None no step registers a reader.
C27_ReaderOnlyWhileMasterOpen ==
    /\ [](reader => (master # None /\ fdOpen /\ ~is_terminated))
    /\ [][master = None => ~reader']_vars

\* done() has closed the master while the connect_reader of a slow-motion
\* read was still waiting in the queue of the event loop.
C27_Witness ==
    /\ is_terminated
    /\ master = None
    /\ callQueue # <<>>
    /\ Head(callQueue) = "connect_reader"

\* C28: send_signal calls os.kill only while the child has not been waited
\* for, so never on a pid that os.waitpid has already reaped.
C28_NoSignalToReapedPid ==
    \A i \in DOMAIN signalCalls :
        signalCalls[i].killed => signalCalls[i].child # "reaped"

\* C29: when the master fd is closed, every byte the child wrote to its pty
\* has been fed to the stream.
C29_NoOutputLostAtExit ==
    ~fdOpen => fed = produced

\* C30: whenever something was typed while the client is attached, the
\* loop eventually reads it and sends it as an 'in' packet, unless attach
\* has ended before.
C30_TypedInputIsSent ==
    (clientPc = "attached" /\ stdin # <<>>)
        ~> (stdin = <<>> \/ clientPc # "attached")

\* os.write took all it was given in the last write_input call.
WroteAll(calls) == calls[Len(calls)].accepted = Len(calls[Len(calls)].written)

\* Mouse events on the panes of windows that are created and split into
\* panes side by side, while
\* the application asks for mouse reports in one mode or several and the
\* command prompt comes and goes. os.write is not interrupted here and
\* takes the whole sequence.
NextMouse ==
    \/ \E w \in WindowIds : create_window(w)
    \/ add_pane(TRUE)
    \/ Start
    \/ \E modes \in MouseModes : SetMouseModes(modes)
    \/ \E name \in BufferNames : SetBufferName(name)
    \/ \E pane \in 1..MaxPanes, event \in MouseEvents :
           \E accepted \in (MaxEscape - 1)..MaxEscape :
               /\ mouse_handler(pane, event, 0, accepted)
               /\ writeCalls' # writeCalls => WroteAll(writeCalls')

SpecMouse == Init /\ [][NextMouse]_vars

\* A step that is a call of a mouse handler, the pane it is for, and whether
\* that pane has the focus when the call is made.
MouseStep == lastMouse'.tick # lastMouse.tick
Clicked == lastMouse'.pane
ClickedHasFocus ==
    /\ current_buffer_name # "COMMAND"
    /\ windows[active_window].active_pane = Clicked

\* The mode whose format a text handed to write_input has, and the position
\* a text in the old format encodes.
InSgr(text) == text[1] = Lit("ESC[<")
InUrxvt(text) == text[1] = Lit("ESC[")
InLegacy(text) == text[1] = Lit("ESC[M")
LegacyX(text) == text[3].n - 33
LegacyY(text) == text[4].n - 33

\* C31: a mouse event on a pane that does not have the focus makes it the
\* active pane of the active window and writes nothing to the process; a
\* mouse event on the pane that has the focus leaves the windows as they
\* are and hands at most one escape sequence to write_input: in the sgr
\* format when sgr is enabled, else in the urxvt format when urxvt is
\* enabled, else in the old format when mouse support is enabled, and then
\* only for x < 96 and y < 96, and none when no mode is enabled.
C31_MouseFocusesOrReports ==
    [][MouseStep =>
          /\ active_window' = active_window
          /\ IsPrefix(writeCalls, writeCalls')
          /\ IF ~ClickedHasFocus
             THEN /\ windows'[active_window].active_pane = Clicked
                  /\ writeCalls' = writeCalls
             ELSE /\ windows' = windows
                  /\ Len(writeCalls') <= Len(writeCalls) + 1
                  /\ \A i \in (Len(writeCalls) + 1)..Len(writeCalls') :
                        LET text == writeCalls'[i].data
                        IN IF mouse_modes.sgr_mouse_support_enabled
                           THEN InSgr(text)
                           ELSE IF mouse_modes.urxvt_mouse_support_enabled
                           THEN InUrxvt(text)
                           ELSE /\ mouse_modes.mouse_support_enabled
                                /\ InLegacy(text)
                                /\ LegacyX(text) < 96
                                /\ LegacyY(text) < 96]_vars

\* A click has moved the focus back to the first pane of a window that was
\* split, and a click on a pane with the focus was reported in the urxvt
\* format.
C31_Witness ==
    /\ active_window # NoWindow
    /\ Len(windows[active_window].panes) >= 2
    /\ windows[active_window].active_pane = windows[active_window].panes[1]
    /\ lastMouse.pane = windows[active_window].active_pane
    /\ writeCalls # <<>>
    /\ InUrxvt(writeCalls[1].data)

====
